---- MODULE Spec2Model ----
(***************************************************************************)
(* DiskSight: directory listing, recursive size aggregation and the        *)
(* name-filter walker (src-tauri/src/dir_listing.rs, dir_listing_v2.rs),   *)
(* and the commands get_list_directory, delete_file and set_complete       *)
(* (src-tauri/src/lib.rs), and the refresh of the desktop viewer           *)
(* (src/main.rs).                                                          *)
(*                                                                         *)
(* The filesystem is a finite tree of nodes.  Node 0 is the directory the  *)
(* call is made on; nodes 1..k are its descendants.  fs::read_dir yields   *)
(* the children of a directory in node order (the enumeration order of a   *)
(* real filesystem is arbitrary; names are chosen independently of it).    *)
(* Names are sequences of byte values, as Rust compares and searches them. *)
(* A fault <<n, kind>> makes one filesystem call on node n fail:           *)
(*   "enum"    the ReadDir iterator yields Err for the entry of n, and     *)
(*             nothing after it (std's ReadDir on Linux ends the stream    *)
(*             with the first error)                                       *)
(*   "stat"    metadata() of n fails                                       *)
(*   "open"    fs::read_dir(n) fails                                       *)
(*   "created" Metadata::created() of n fails                              *)
(*   "canon"   canonicalize() of n fails                                   *)
(*   "chmod"   fs::set_permissions on n fails                              *)
(* File lengths are u64 in the source; the sums modelled here stay far     *)
(* below 2^64, so plain naturals are used.                                 *)
(***************************************************************************)
EXTENDS Integers, Sequences, FiniteSets, TLC

VARIABLES
    parent,     \* parent[n]: the directory holding node n (n >= 1)
    kind,       \* kind[n] \in {"file", "dir"}
    name,       \* name[n]: base name of node n
    len,        \* len[n]: Metadata::len() of node n
    faults,     \* set of <<node, fault kind>>
    readonly,   \* the nodes whose permissions have the read-only bit set
    removed,    \* the nodes removed from the filesystem by delete_file
    variant,    \* "v1" = list_directory, "v2" = list_directory_with_events
    args,       \* the Cli record of the call (delete_file: path and force)
    pc,         \* position of the call: "idle", "start", "loop", "done";
                \* get_list_directory: also "panicked", "returned"
    files,      \* the Vec<String> of base names, sorted once collected
    sorted_files, \* v2 only: the clone of files taken before files.sort()
    index,      \* number of loop iterations completed
    entries,    \* the Vec<FileEntry> built so far
    result,     \* <<"none">>, <<"Ok", Vec<FileEntry>>> or <<"Err", cause>>
    events,     \* the trace so far: notifications raised (v2), filesystem calls
    aggDone,    \* completed stand-alone calls of the size aggregators
    \* FileSizeViewer (src/main.rs)
    is_loading,     \* the AtomicBool shared by the viewer and its workers
    viewer_entries, \* the Vec behind the viewer's entries: Arc<Mutex<..>>
    viewer_path,    \* FileSizeViewer.current_path, the path in the text field
    workers,        \* the threads spawned by refresh_data, in spawn order
    frame,          \* the frame being drawn by update: position, local is_loading
    \* SetupState and the windows (lib.rs)
    frontend_task,  \* SetupState.frontend_task
    backend_task,   \* SetupState.backend_task
    poisoned,       \* the Mutex around SetupState was held by a panicking call
    splashscreen,   \* the window "splashscreen": "open", "closing", "closed"
    main_window,    \* the window "main": "hidden", "visible"
    setup_pc        \* the setup task: "sleeping", "calling", "done"

vars == <<parent, kind, name, len, faults, readonly, removed, variant, args, pc, files, sorted_files,
          index, entries, result, events, aggDone,
          is_loading, viewer_entries, viewer_path, workers, frame,
          frontend_task, backend_task, poisoned, splashscreen, main_window, setup_pc>>

fsvars == <<parent, kind, name, len, faults, readonly, removed>>

viewervars == <<is_loading, viewer_entries, viewer_path, workers, frame>>

setupvars == <<frontend_task, backend_task, poisoned, splashscreen, main_window, setup_pc>>

appvars == <<viewervars, setupvars>>

\* the viewer as constructed with no worker spawned (a call made on the
\* library alone)
ViewerIdle ==
    /\ is_loading = TRUE
    /\ viewer_entries = <<>>
    /\ viewer_path = 0
    /\ workers = <<>>
    /\ frame = [pc |-> "load", is_loading |-> TRUE]

\* lib.rs 170-173: the SetupState managed at start, the splash screen up
SetupIdle ==
    /\ frontend_task = FALSE
    /\ backend_task = FALSE
    /\ poisoned = FALSE
    /\ splashscreen = "open"
    /\ main_window = "hidden"
    /\ setup_pc = "sleeping"

AppIdle == ViewerIdle /\ SetupIdle

(***************************************************************************)
(* Bounds                                                                   *)
(***************************************************************************)
MaxAggNodes == 4

MaxAggFaults == 2

Root == 0

Nodes == DOMAIN kind

\* Option<String>: None, Some(s)
None == <<>>

Some(x) == <<x>>

Unwrap(o) == o[1]

FaultKinds == {"enum", "stat", "open", "created", "canon"}

(***************************************************************************)
(* Filesystem primitives                                                    *)
(***************************************************************************)
IsDir(n) == n = Root \/ kind[n] = "dir"

Children(d) == {n \in Nodes : parent[n] = d}

RECURSIVE SetToSeq(_)
\* the elements of a set of nodes, ascending
SetToSeq(S) ==
    IF S = {} THEN <<>>
    ELSE LET m == CHOOSE x \in S : \A y \in S : x <= y
         IN <<m>> \o SetToSeq(S \ {m})

\* fs::read_dir(d): Ok(iterator) unless the directory cannot be opened
ReadDirOk(d) == <<d, "open">> \notin faults

\* the items of the ReadDir iterator, in enumeration order
ReadDirItems(d) == SetToSeq(Children(d))

\* an item of the iterator is Ok(entry) unless its read failed
ItemOk(n) == <<n, "enum">> \notin faults

\* DirEntry::metadata() / Path::metadata()
MetadataOk(n) == <<n, "stat">> \notin faults

CreatedOk(n) == <<n, "created">> \notin faults

CanonicalizeOk(n) == <<n, "canon">> \notin faults

\* the iterator yields Ok(entry) for n: the read of n and of every item
\* before it succeeded (after an Err the iterator yields None)
Yielded(n) == \A m \in Children(parent[n]) : m <= n => ItemOk(m)

\* entries.filter_map(|e| match e { Ok(entry) => Some(entry), Err(_) => None })
\* and entries.flatten(): the Ok items, in order; these are the items before
\* the first Err
OkItems(d) == SelectSeq(ReadDirItems(d), Yielded)

(***************************************************************************)
(* calculate_dir_size (dir_listing.rs)                                      *)
(*                                                                         *)
(* inner_calculate returns the set of totals the call can produce.  With   *)
(* parallel = false the children are summed left to right.  With parallel  *)
(* = true rayon splits the Vec recursively at a point that depends on the  *)
(* scheduling, sums each part and adds the two partial sums: every         *)
(* bracketing of the sequence is a possible run.                            *)
(***************************************************************************)
RECURSIVE inner_calculate(_, _), process_entry(_, _), iter_sum(_, _, _),
          par_iter_sum(_, _, _, _)

\* entries.iter().map(|e| process_entry(e, pb, parallel)).sum::<u64>()
iter_sum(es, i, parallel) ==
    IF i = 0 THEN {0}
    ELSE {a + b : a \in iter_sum(es, i - 1, parallel),
                  b \in process_entry(es[i], parallel)}

\* entries.par_iter().map(|e| process_entry(e, pb, parallel)).sum::<u64>()
\* mutant: the partial sums are added into a shared total without
\* synchronisation, so the left part's update can be lost
par_iter_sum_racy(es, lo, hi, parallel) ==
    IF lo > hi THEN {0}
    ELSE IF lo = hi THEN process_entry(es[lo], parallel)
    ELSE UNION {{a + b : a \in par_iter_sum(es, lo, m, parallel),
                         b \in par_iter_sum(es, m + 1, hi, parallel)}
                \cup par_iter_sum(es, m + 1, hi, parallel)
                : m \in lo..(hi - 1)}

par_iter_sum(es, lo, hi, parallel) ==
    IF lo > hi THEN {0}
    ELSE IF lo = hi THEN process_entry(es[lo], parallel)
    ELSE UNION {{a + b : a \in par_iter_sum(es, lo, m, parallel),
                         b \in par_iter_sum(es, m + 1, hi, parallel)}
                : m \in lo..(hi - 1)}

\* mutant: the result of e.metadata() is not checked
process_entry_unchecked(e, parallel) ==
    IF IsDir(e) THEN inner_calculate(e, parallel) ELSE {len[e]}

process_entry(e, parallel) ==
    IF MetadataOk(e)
    THEN IF IsDir(e) THEN inner_calculate(e, parallel) ELSE {len[e]}
    ELSE {0}

inner_calculate(p, parallel) ==
    IF ReadDirOk(p)
    THEN LET es == OkItems(p)
         IN IF parallel THEN par_iter_sum(es, 1, Len(es), parallel)
            ELSE iter_sum(es, Len(es), parallel)
    ELSE {0}

\* the u64 half of the (u64, String) pair calculate_dir_size returns
calculate_dir_size(path, parallel) == inner_calculate(path, parallel)

(***************************************************************************)
(* calculate_dir_size_with_events_simple (dir_listing_v2.rs)                *)
(***************************************************************************)
RECURSIVE inner_calculate_ev(_, _), process_entry_with_events(_, _),
          iter_sum_ev(_, _, _), par_iter_sum_ev(_, _, _, _)

iter_sum_ev(es, i, parallel) ==
    IF i = 0 THEN {0}
    ELSE {a + b : a \in iter_sum_ev(es, i - 1, parallel),
                  b \in process_entry_with_events(es[i], parallel)}

\* mutant: each branch adds its sum to a total shared by the branches with an
\* unsynchronised read-modify-write, so the update of the left part can be lost
par_iter_sum_ev_shared(es, lo, hi, parallel) ==
    IF lo > hi THEN {0}
    ELSE IF lo = hi THEN process_entry_with_events(es[lo], parallel)
    ELSE UNION {{a + b : a \in par_iter_sum_ev(es, lo, m, parallel),
                         b \in par_iter_sum_ev(es, m + 1, hi, parallel)}
                \cup par_iter_sum_ev(es, m + 1, hi, parallel)
                : m \in lo..(hi - 1)}

par_iter_sum_ev(es, lo, hi, parallel) ==
    IF lo > hi THEN {0}
    ELSE IF lo = hi THEN process_entry_with_events(es[lo], parallel)
    ELSE UNION {{a + b : a \in par_iter_sum_ev(es, lo, m, parallel),
                         b \in par_iter_sum_ev(es, m + 1, hi, parallel)}
                : m \in lo..(hi - 1)}

process_entry_with_events(e, parallel) ==
    IF MetadataOk(e)
    THEN IF IsDir(e) THEN inner_calculate_ev(e, parallel) ELSE {len[e]}
    ELSE {0}

inner_calculate_ev(p, parallel) ==
    IF ReadDirOk(p)
    THEN LET es == OkItems(p)
         IN IF parallel THEN par_iter_sum_ev(es, 1, Len(es), parallel)
            ELSE iter_sum_ev(es, Len(es), parallel)
    ELSE {0}

calculate_dir_size_with_events_simple(path, parallel) ==
    inner_calculate_ev(path, parallel)

(***************************************************************************)
(* The trace of a call                                                      *)
(*                                                                         *)
(* A trace is the sequence of the notifications raised and of the          *)
(* filesystem calls made, in the order they happen; both are triples.  A   *)
(* notification is <<current_path, current_file, status>> with the nodes   *)
(* the two paths name and the status as a tuple (<<"processing">>,         *)
(* <<"progress", N>>, ...).  A filesystem call on node n is                *)
(* <<n, n, <<"fs", op, who>>>> with op "read_dir" or "metadata" and who    *)
(* the function that makes it: "lister", "walker" or "aggregator".         *)
(* The operators below give, for each function modelled above by the value *)
(* it returns, the set of traces one call can leave.  Under par_iter the   *)
(* traces of the entries of a Vec are merged in every order that keeps     *)
(* each entry's own trace in order.                                         *)
(***************************************************************************)
\* emit_progress (lib.rs): the event handed to app_handle.emit; "let _ ="
\* drops the Result of emit, so nothing is returned to the caller
emit_progress(current_path, current_file, status) ==
    <<current_path, current_file, status>>

FsCall(who, op, n) == <<n, n, <<"fs", op, who>>>>

IsEmit(e) == e[3][1] # "fs"

IsFsCall(e, op) == e[3][1] = "fs" /\ e[3][2] = op

RECURSIVE Interleavings(_, _)
\* the merges of two traces that run concurrently
Interleavings(a, b) ==
    IF a = <<>> THEN {b}
    ELSE IF b = <<>> THEN {a}
    ELSE {<<Head(a)>> \o t : t \in Interleavings(Tail(a), b)}
         \cup {<<Head(b)>> \o t : t \in Interleavings(a, Tail(b))}

RECURSIVE inner_calculate_trace(_, _), process_entry_trace(_, _),
          iter_trace(_, _, _), par_iter_trace(_, _, _, _)

\* entries.iter().map(..): one entry after the other
iter_trace(es, i, parallel) ==
    IF i = 0 THEN {<<>>}
    ELSE {a \o b : a \in iter_trace(es, i - 1, parallel),
                   b \in process_entry_trace(es[i], parallel)}

\* entries.par_iter().map(..): the two parts of a split run concurrently
par_iter_trace(es, lo, hi, parallel) ==
    IF lo > hi THEN {<<>>}
    ELSE IF lo = hi THEN process_entry_trace(es[lo], parallel)
    ELSE UNION {UNION {Interleavings(a, b) :
                          a \in par_iter_trace(es, lo, m, parallel),
                          b \in par_iter_trace(es, m + 1, hi, parallel)}
                : m \in lo..(hi - 1)}

\* process_entry (dir_listing.rs 56-70)
process_entry_trace(e, parallel) ==
    {<<FsCall("aggregator", "metadata", e)>> \o t :
        t \in IF MetadataOk(e) /\ IsDir(e) THEN inner_calculate_trace(e, parallel)
              ELSE {<<>>}}

\* inner_calculate (dir_listing.rs 15-53)
inner_calculate_trace(p, parallel) ==
    {<<FsCall("aggregator", "read_dir", p)>> \o t :
        t \in IF ReadDirOk(p)
              THEN LET es == OkItems(p)
                   IN IF parallel THEN par_iter_trace(es, 1, Len(es), parallel)
                      ELSE iter_trace(es, Len(es), parallel)
              ELSE {<<>>}}

calculate_dir_size_trace(path, parallel) == inner_calculate_trace(path, parallel)

RECURSIVE inner_calculate_ev_trace(_, _), process_entry_with_events_trace(_, _),
          iter_ev_trace(_, _, _), par_iter_ev_trace(_, _, _, _)

iter_ev_trace(es, i, parallel) ==
    IF i = 0 THEN {<<>>}
    ELSE {a \o b : a \in iter_ev_trace(es, i - 1, parallel),
                   b \in process_entry_with_events_trace(es[i], parallel)}

par_iter_ev_trace(es, lo, hi, parallel) ==
    IF lo > hi THEN {<<>>}
    ELSE IF lo = hi THEN process_entry_with_events_trace(es[lo], parallel)
    ELSE UNION {UNION {Interleavings(a, b) :
                          a \in par_iter_ev_trace(es, lo, m, parallel),
                          b \in par_iter_ev_trace(es, m + 1, hi, parallel)}
                : m \in lo..(hi - 1)}

\* process_entry_with_events (dir_listing_v2.rs 325-344)
process_entry_with_events_trace(e, parallel) ==
    {<<FsCall("aggregator", "metadata", e)>> \o t :
        t \in IF MetadataOk(e) /\ IsDir(e) THEN inner_calculate_ev_trace(e, parallel)
              ELSE {<<>>}}

\* mutant: "processing_file" is raised by the branch that has processed the
\* entry, after it, instead of while the entries are collected
inner_calculate_ev_trace_late(p, parallel) ==
    {<<FsCall("aggregator", "read_dir", p)>> \o t :
        t \in IF ReadDirOk(p)
              THEN LET es == OkItems(p)
                       body == IF parallel
                               THEN par_iter_ev_trace(es, 1, Len(es), parallel)
                               ELSE iter_ev_trace(es, Len(es), parallel)
                   IN {b \o [i \in 1..Len(es) |->
                                emit_progress(p, es[i], <<"processing_file">>)] :
                          b \in body}
              ELSE {<<>>}}

\* inner_calculate (dir_listing_v2.rs 283-323): "processing_file" is raised
\* for each Ok item while the Vec is collected, before any entry is processed
inner_calculate_ev_trace(p, parallel) ==
    {<<FsCall("aggregator", "read_dir", p)>> \o t :
        t \in IF ReadDirOk(p)
              THEN LET es == OkItems(p)
                       body == IF parallel
                               THEN par_iter_ev_trace(es, 1, Len(es), parallel)
                               ELSE iter_ev_trace(es, Len(es), parallel)
                   IN {[i \in 1..Len(es) |->
                           emit_progress(p, es[i], <<"processing_file">>)] \o b :
                          b \in body}
              ELSE {<<>>}}

\* lines 346-349: the notification raised on entry, then inner_calculate
calculate_dir_size_with_events_simple_trace(path, parallel) ==
    {<<emit_progress(path, path, <<"calculating_directory_size">>)>> \o t :
        t \in inner_calculate_ev_trace(path, parallel)}

(***************************************************************************)
(* Strings                                                                  *)
(***************************************************************************)
\* String ordering (Ord for String): byte-wise lexicographic, a proper
\* prefix before the longer string
StrLess(a, b) ==
    \E i \in 1..Len(b) :
        /\ \A j \in 1..(i - 1) : j <= Len(a) /\ a[j] = b[j]
        /\ \/ i = Len(a) + 1
           \/ i <= Len(a) /\ a[i] < b[i]

\* mutant: the comparison ignores ASCII case (both sides lower-cased)
Contains_ignore_case(s, pat) ==
    LET lower(c) == IF c >= 65 /\ c <= 90 THEN c + 32 ELSE c
    IN \E i \in 1..(Len(s) + 1) :
          /\ i + Len(pat) - 1 <= Len(s)
          /\ \A j \in 1..Len(pat) : lower(s[i + j - 1]) = lower(pat[j])

\* str::contains(pattern): the pattern occurs at some position
Contains(s, pat) ==
    \E i \in 1..(Len(s) + 1) :
        /\ i + Len(pat) - 1 <= Len(s)
        /\ \A j \in 1..Len(pat) : s[i + j - 1] = pat[j]

RECURSIVE InsertName(_, _)
InsertName(sorted, x) ==
    IF sorted = <<>> THEN <<x>>
    ELSE IF StrLess(x, Head(sorted)) THEN <<x>> \o sorted
    ELSE <<Head(sorted)>> \o InsertName(Tail(sorted), x)

RECURSIVE SortNames(_)
\* files.sort()
SortNames(seq) ==
    IF seq = <<>> THEN <<>>
    ELSE InsertName(SortNames(SubSeq(seq, 1, Len(seq) - 1)), seq[Len(seq)])

\* path.join(file): the child of d with that base name
Join(d, file) == CHOOSE n \in Children(d) : name[n] = file

RECURSIVE to_string(_)
\* u64::to_string(): the decimal digits, most significant first
to_string(n) ==
    IF n < 10 THEN <<48 + n>>
    ELSE to_string(n \div 10) \o <<48 + (n % 10)>>

\* utils::human_readable_size is not part of the sources at hand; it is
\* modelled after the contract of SizeFormatter: a unit-scaled string, "0 B"
\* for 0 and a KB-scale string for 1536.  The ladder B, KB, MB, GB, TB in
\* steps of 1024 and two decimals (cut, not rounded) are this model's choice.
human_readable_size(bytes) ==
    LET units == <<<<66>>, <<75, 66>>, <<77, 66>>, <<71, 66>>, <<84, 66>>>>
        u == CHOOSE i \in 0..4 :
                 /\ (i = 0 \/ bytes >= 1024 ^ i)
                 /\ (i = 4 \/ bytes < 1024 ^ (i + 1))
        hundredths == (bytes * 100) \div (1024 ^ u)
        frac == hundredths % 100
    IN IF u = 0 THEN to_string(bytes) \o <<32>> \o units[1]
       ELSE to_string(hundredths \div 100) \o <<46, 48 + (frac \div 10), 48 + (frac % 10)>>
                \o <<32>> \o units[u + 1]

\* mutant: the display string is always the decimal string, whatever the flag
converted_plain(total, human_readable) == to_string(total)

\* "let converted = if human_readable { human_readable_size(total) } else
\* { total.to_string() }": the String half of the pair calculate_dir_size and
\* calculate_dir_size_with_events_simple return
converted(total, human_readable) ==
    IF human_readable THEN human_readable_size(total) ELSE to_string(total)

(***************************************************************************)
(* FileEntry                                                                *)
(*                                                                         *)
(* path is <<"canonical", n>> (the canonical absolute path of n, verbatim  *)
(* prefix stripped), <<"joined", n>> (the path the lister built by join)   *)
(* or <<>> (the empty string).  node is not a field of the source struct:  *)
(* it records which node the Entry was built for.                          *)
(***************************************************************************)
FileEntry(n, size_raw, size_display, path) ==
    [file_type |-> IF IsDir(n) THEN "d" ELSE "-",
     size_display |-> size_display,
     size_raw  |-> size_raw,
     path      |-> path,
     name      |-> name[n],
     node      |-> n]

\* dir_listing.rs 168-178, dir_listing_v2.rs 141-148
ListerPath(n) == IF CanonicalizeOk(n) THEN <<"canonical", n>> ELSE <<"joined", n>>

\* dir_listing.rs 252-262, dir_listing_v2.rs 249-259
WalkerPath(n) == IF CanonicalizeOk(n) THEN <<"canonical", n>> ELSE <<>>

(***************************************************************************)
(* The size sort                                                            *)
(***************************************************************************)
RECURSIVE InsertAscending(_, _)
\* stable: x goes after the elements that compare equal to it
InsertAscending(sorted, x) ==
    IF sorted = <<>> THEN <<x>>
    ELSE IF x.size_raw < Head(sorted).size_raw THEN <<x>> \o sorted
    ELSE <<Head(sorted)>> \o InsertAscending(Tail(sorted), x)

RECURSIVE InsertDescending(_, _)
InsertDescending(sorted, x) ==
    IF sorted = <<>> THEN <<x>>
    ELSE IF x.size_raw > Head(sorted).size_raw THEN <<x>> \o sorted
    ELSE <<Head(sorted)>> \o InsertDescending(Tail(sorted), x)

RECURSIVE sort_by_v1_dedup(_)
\* mutant: an entry whose size is already present is dropped (dedup by key)
sort_by_v1_dedup(seq) ==
    IF seq = <<>> THEN <<>>
    ELSE LET init == sort_by_v1_dedup(SubSeq(seq, 1, Len(seq) - 1))
             x == seq[Len(seq)]
         IN IF \E i \in 1..Len(init) : init[i].size_raw = x.size_raw
            THEN init
            ELSE InsertAscending(init, x)

RECURSIVE sort_by_v1(_)
\* entries.sort_by(|a, b| a.size_raw.cmp(&b.size_raw))    (dir_listing.rs 189)
sort_by_v1(seq) ==
    IF seq = <<>> THEN <<>>
    ELSE InsertAscending(sort_by_v1(SubSeq(seq, 1, Len(seq) - 1)), seq[Len(seq)])

RECURSIVE sort_by_v2(_)
\* entries.sort_by(|a, b| b.size_raw.cmp(&a.size_raw))    (dir_listing_v2.rs 160)
sort_by_v2(seq) ==
    IF seq = <<>> THEN <<>>
    ELSE InsertDescending(sort_by_v2(SubSeq(seq, 1, Len(seq) - 1)), seq[Len(seq)])

(***************************************************************************)
(* The name-filter walkers                                                  *)
(*                                                                         *)
(* Each returns the set of sequences of entries one call can append to the *)
(* caller's Vec (a set because the aggregator's total is an outcome of the *)
(* scheduling when parallel is set).                                        *)
(***************************************************************************)
RECURSIVE calculate_dir_size1(_, _, _), walk_items1(_, _, _, _)

\* mutant: a matched directory is listed and searched as well
walk_items1_descend(es, i, parallel, filter) ==
    IF i > Len(es) THEN {<<>>}
    ELSE LET e == es[i]
             rest == walk_items1(es, i + 1, parallel, filter)
             here ==
                 IF ~MetadataOk(e) THEN {<<>>}
                 ELSE IF IsDir(e)
                 THEN IF ~Contains(name[e], filter)
                      THEN calculate_dir_size1(e, parallel, filter)
                      ELSE {<<FileEntry(e, raw, converted(raw, args.human_readable),
                                            WalkerPath(e))>> \o below :
                                raw \in calculate_dir_size(e, parallel),
                                below \in calculate_dir_size1(e, parallel, filter)}
                 ELSE {<<>>}
         IN {h \o r : h \in here, r \in rest}

\* mutant: a directory that does not match is skipped, not searched
walk_items1_shallow(es, i, parallel, filter) ==
    IF i > Len(es) THEN {<<>>}
    ELSE LET e == es[i]
             rest == walk_items1(es, i + 1, parallel, filter)
             here ==
                 IF ~MetadataOk(e) THEN {<<>>}
                 ELSE IF IsDir(e) /\ Contains(name[e], filter)
                 THEN {<<FileEntry(e, raw, converted(raw, args.human_readable),
                                            WalkerPath(e))>> :
                          raw \in calculate_dir_size(e, parallel)}
                 ELSE {<<>>}
         IN {h \o r : h \in here, r \in rest}

\* the loop "for entry in sub_entries.flatten()" from item i on
walk_items1(es, i, parallel, filter) ==
    IF i > Len(es) THEN {<<>>}
    ELSE LET e == es[i]
             rest == walk_items1(es, i + 1, parallel, filter)
             here ==
                 IF ~MetadataOk(e) THEN {<<>>}
                 ELSE IF IsDir(e)
                 THEN IF ~Contains(name[e], filter)
                      THEN calculate_dir_size1(e, parallel, filter)
                      ELSE {<<FileEntry(e, raw, converted(raw, args.human_readable),
                                            WalkerPath(e))>> :
                                raw \in calculate_dir_size(e, parallel)}
                 ELSE {<<>>}
         IN {h \o r : h \in here, r \in rest}

calculate_dir_size1(file_path, parallel, filter) ==
    IF ReadDirOk(file_path)
    THEN walk_items1(OkItems(file_path), 1, parallel, filter)
    ELSE {<<>>}

RECURSIVE calculate_dir_size_with_events(_, _, _), walk_items_ev(_, _, _, _)

walk_items_ev(es, i, parallel, filter) ==
    IF i > Len(es) THEN {<<>>}
    ELSE LET e == es[i]
             rest == walk_items_ev(es, i + 1, parallel, filter)
             here ==
                 IF ~MetadataOk(e) THEN {<<>>}
                 ELSE IF IsDir(e)
                 THEN IF ~Contains(name[e], filter)
                      THEN calculate_dir_size_with_events(e, parallel, filter)
                      ELSE {<<FileEntry(e, raw, converted(raw, args.human_readable),
                                            WalkerPath(e))>> :
                                raw \in calculate_dir_size_with_events_simple(e, parallel)}
                 ELSE {<<>>}
         IN {h \o r : h \in here, r \in rest}

calculate_dir_size_with_events(file_path, parallel, filter) ==
    IF ReadDirOk(file_path)
    THEN walk_items_ev(OkItems(file_path), 1, parallel, filter)
    ELSE {<<>>}

\* the traces of the two walkers
RECURSIVE calculate_dir_size1_trace(_, _, _), walk_items1_trace(_, _, _, _)

\* mutant: a matched directory is sized by the aggregator and then searched
\* by the walker as well
walk_items1_trace_descend(es, i, parallel, filter) ==
    IF i > Len(es) THEN {<<>>}
    ELSE LET e == es[i]
             rest == walk_items1_trace(es, i + 1, parallel, filter)
             here ==
                 IF MetadataOk(e) /\ IsDir(e)
                 THEN IF ~Contains(name[e], filter)
                      THEN calculate_dir_size1_trace(e, parallel, filter)
                      ELSE {a \o b : a \in calculate_dir_size_trace(e, parallel),
                                     b \in calculate_dir_size1_trace(e, parallel, filter)}
                 ELSE {<<>>}
         IN {<<FsCall("walker", "metadata", e)>> \o h \o r : h \in here, r \in rest}

walk_items1_trace(es, i, parallel, filter) ==
    IF i > Len(es) THEN {<<>>}
    ELSE LET e == es[i]
             rest == walk_items1_trace(es, i + 1, parallel, filter)
             here ==
                 IF MetadataOk(e) /\ IsDir(e)
                 THEN IF ~Contains(name[e], filter)
                      THEN calculate_dir_size1_trace(e, parallel, filter)
                      ELSE calculate_dir_size_trace(e, parallel)
                 ELSE {<<>>}
         IN {<<FsCall("walker", "metadata", e)>> \o h \o r : h \in here, r \in rest}

calculate_dir_size1_trace(file_path, parallel, filter) ==
    {<<FsCall("walker", "read_dir", file_path)>> \o t :
        t \in IF ReadDirOk(file_path)
              THEN walk_items1_trace(OkItems(file_path), 1, parallel, filter)
              ELSE {<<>>}}

RECURSIVE calculate_dir_size_with_events_trace(_, _, _),
          walk_items_ev_trace(_, _, _, _)

walk_items_ev_trace(es, i, parallel, filter) ==
    IF i > Len(es) THEN {<<>>}
    ELSE LET e == es[i]
             sub_path == parent[e]
             rest == walk_items_ev_trace(es, i + 1, parallel, filter)
             here ==
                 IF ~MetadataOk(e) THEN {<<>>}
                 ELSE {<<emit_progress(sub_path, e, <<"checking_file">>)>> \o t :
                         t \in IF ~IsDir(e) THEN {<<>>}
                               ELSE IF ~Contains(name[e], filter)
                               THEN calculate_dir_size_with_events_trace(e, parallel,
                                                                         filter)
                               ELSE {<<emit_progress(sub_path, e,
                                          <<"calculating_matching_directory">>)>>
                                     \o a
                                     \o <<emit_progress(sub_path, e,
                                             <<"matching_directory_completed">>)>> :
                                       a \in calculate_dir_size_with_events_simple_trace(
                                                 e, parallel)}}
         IN {<<FsCall("walker", "metadata", e)>> \o h \o r : h \in here, r \in rest}

calculate_dir_size_with_events_trace(file_path, parallel, filter) ==
    {<<emit_progress(file_path, file_path, <<"searching_in_directory">>),
       FsCall("walker", "read_dir", file_path)>> \o t :
        t \in IF ReadDirOk(file_path)
              THEN walk_items_ev_trace(OkItems(file_path), 1, parallel, filter)
              ELSE {<<>>}}

(***************************************************************************)
(* Trees                                                                    *)
(***************************************************************************)
\* parent arrays of the trees with nodes 0..k, numbered breadth first
ParentArrays(k) ==
    {p \in [1..k -> 0..k] :
        /\ \A n \in 1..k : p[n] < n
        /\ \A n \in 2..k : p[n - 1] <= p[n]}

\* every parent is a directory
KindsFor(k, p) ==
    {kd \in [1..k -> {"file", "dir"}] : \A n \in 1..k : p[n] = 0 \/ kd[p[n]] = "dir"}

\* faults that a call can meet on this tree: read_dir only on directories
FaultsFor(k, kd, kinds) ==
    {<<n, f>> : n \in 1..k, f \in kinds \ {"open"}}
        \cup {<<n, "open">> : n \in {m \in 0..k : m = 0 \/ kd[m] = "dir"}}

RECURSIVE SubsetsUpTo(_, _)
\* the subsets of S with at most m elements
SubsetsUpTo(S, m) ==
    IF m = 0 THEN {{}}
    ELSE LET smaller == SubsetsUpTo(S, m - 1)
         IN smaller \cup {T \cup {x} : T \in smaller, x \in S}

\* default names: node n is called by the digit n ("1", "2", ...)
DefaultName(n) == <<48 + n>>

\* default lengths: distinct powers of two, so a sum tells which files it holds
DefaultLen(n) == 2 ^ (n - 1)

IdleArgs == [long_format |-> TRUE, human_readable |-> FALSE, parallel |-> FALSE,
             sort |-> FALSE, name |-> None]

ListerIdle ==
    /\ args = IdleArgs
    /\ pc = "idle"
    /\ files = <<>>
    /\ sorted_files = <<>>
    /\ index = 0
    /\ entries = <<>>
    /\ result = <<"none">>
    /\ events = <<>>

(***************************************************************************)
(* SpecAgg: the size aggregators called on node 0                           *)
(***************************************************************************)
InitAgg ==
    /\ \E k \in 0..MaxAggNodes :
         /\ parent \in ParentArrays(k)
         /\ kind \in KindsFor(k, parent)
         /\ name = [n \in 1..k |-> DefaultName(n)]
         /\ len = [n \in 1..k |-> DefaultLen(n)]
         /\ faults \in SubsetsUpTo(FaultsFor(k, kind, {"enum", "stat", "open"}),
                                   MaxAggFaults)
    /\ variant \in {"v1", "v2"}
    /\ ListerIdle
    /\ aggDone = {}
    /\ AppIdle
    /\ readonly = {}
    /\ removed = {}

CallCalculateDirSize ==
    \E parallel \in BOOLEAN :
        /\ pc = "idle" /\ variant = "v1"
        /\ \A c \in aggDone : ~(c.fn = "v1" /\ c.parallel = parallel)
        /\ \E total \in calculate_dir_size(Root, parallel) :
               aggDone' = aggDone \cup
                   {[fn |-> "v1", parallel |-> parallel, total |-> total]}
        /\ UNCHANGED <<fsvars, appvars, variant, args, pc, files, sorted_files, index, entries,
                       result, events>>

CallCalculateDirSizeWithEvents ==
    \E parallel \in BOOLEAN :
        /\ pc = "idle" /\ variant = "v2"
        /\ \A c \in aggDone : ~(c.fn = "v2" /\ c.parallel = parallel)
        /\ \E total \in calculate_dir_size_with_events_simple(Root, parallel) :
               aggDone' = aggDone \cup
                   {[fn |-> "v2", parallel |-> parallel, total |-> total]}
        /\ \E t \in calculate_dir_size_with_events_simple_trace(Root, parallel) :
               events' = events \o t
        /\ UNCHANGED <<fsvars, appvars, variant, args, pc, files, sorted_files, index, entries,
                       result>>

NextAgg == CallCalculateDirSize \/ CallCalculateDirSizeWithEvents

SpecAgg == InitAgg /\ [][NextAgg]_vars

(***************************************************************************)
(* Claims about the size aggregators (SpecAgg)                              *)
(***************************************************************************)
RECURSIVE Ancestors(_)
Ancestors(n) == IF n = Root THEN {} ELSE {parent[n]} \cup Ancestors(parent[n])

\* the nodes on the way from d (excluded) down to n (included)
Below(d, n) == ({n} \cup Ancestors(n)) \ ({d} \cup Ancestors(d))

\* the files under d that a traversal from d reads successfully: every node
\* on the way is yielded by its directory's iterator and stat'ed, every
\* directory on the way opens
ReadableFilesUnder(d) ==
    {f \in Nodes :
        /\ kind[f] = "file"
        /\ d \in Ancestors(f)
        /\ \A m \in Below(d, f) : Yielded(m) /\ MetadataOk(m)
        /\ \A m \in Ancestors(f) \ Ancestors(d) : ReadDirOk(m)}

\* the files under d with no failing entry on the way from d: an entry that
\* fails to enumerate, to stat or to open takes out itself and what lies
\* below it, and nothing of its siblings
FilesBelowNoFailure(d) ==
    {f \in Nodes :
        /\ kind[f] = "file"
        /\ d \in Ancestors(f)
        /\ \A m \in Below(d, f) : ItemOk(m) /\ MetadataOk(m)
        /\ \A m \in Ancestors(f) \ Ancestors(d) : ReadDirOk(m)}

RECURSIVE SumLen(_)
SumLen(S) ==
    IF S = {} THEN 0
    ELSE LET x == CHOOSE y \in S : TRUE IN len[x] + SumLen(S \ {x})

\* every call returns the sum of the lengths of the files it has read, and
\* the call always has a result (it cannot fail)
AggregateIsSumOfRead ==
    /\ \A c \in aggDone : c.total = SumLen(ReadableFilesUnder(Root))
    /\ pc = "idle" =>
          \A parallel \in BOOLEAN :
              (IF variant = "v1" THEN calculate_dir_size(Root, parallel)
               ELSE calculate_dir_size_with_events_simple(Root, parallel)) # {}

\* C1: whatever entries fail to enumerate, to stat or to open, every call of
\* calculate_dir_size / calculate_dir_size_with_events_simple returns exactly
\* the sum of the lengths of the descendant files with no failing entry on
\* their way: a failing entry contributes 0 and changes the contribution
\* of no sibling.
C1_AggregateIsReadableSum ==
    \A c \in aggDone : c.total = SumLen(FilesBelowNoFailure(Root))

\* C2: on a tree where nothing fails, the parallel call returns the same
\* total as the sequential call, whatever way the parallel sum was split.
C2_ParallelEqualsSequential ==
    faults = {} => \A c1, c2 \in aggDone : c1.fn = c2.fn => c1.total = c2.total

\* both calls have returned on a fault-free tree where some directory has
\* several children and files lie at different depths
C2_Witness ==
    /\ faults = {}
    /\ \E c1, c2 \in aggDone : c1.parallel /\ ~c2.parallel /\ c1.total >= 3
    /\ \E d \in Nodes : Cardinality(Children(d)) >= 2
    /\ \E f \in Nodes : kind[f] = "file" /\ parent[f] = Root

(***************************************************************************)
(* list_directory (v1) and list_directory_with_events (v2)                  *)
(*                                                                         *)
(* events holds the trace of the call so far: the notifications raised by  *)
(* list_directory_with_events and the functions it calls, and the          *)
(* read_dir and metadata calls made by either lister and its callees.      *)
(***************************************************************************)
Max(a, b) == IF a >= b THEN a ELSE b

\* the Vec the for loop runs over: files in v1, sorted_files in v2
Iterated == IF variant = "v1" THEN files ELSE sorted_files

\* lines 26-42 (v2), 85-102 (v1): open the root, collect the names, sort
ListStart ==
    /\ pc = "start"
    /\ events' = events \o <<FsCall("lister", "read_dir", Root)>>
    /\ IF ~ReadDirOk(Root)
       THEN /\ result' = <<"Err", "read_dir">>
            /\ pc' = "done"
            /\ UNCHANGED <<files, sorted_files>>
       ELSE LET collected == [i \in 1..Len(OkItems(Root)) |-> name[OkItems(Root)[i]]]
            IN /\ files' = SortNames(collected)
               /\ sorted_files' = IF variant = "v2" THEN collected ELSE <<>>
               /\ pc' = "loop"
               /\ UNCHANGED result
    /\ UNCHANGED <<fsvars, appvars, variant, args, index, entries, aggDone>>

\* the notifications at the head of an iteration of the v2 loop (lines 50-63)
HeadEvents(i, file_path) ==
    LET total_files == Len(sorted_files)
    IN <<<<Root, file_path, <<"processing">>>>>>
       \o (IF i % Max(1, total_files \div 10) = 0
           THEN <<<<Root, file_path, <<"progress", (i * 100) \div total_files>>>>>>
           ELSE <<>>)

\* The outcomes of one iteration of the loop for the child file_path, the
\* i-th (from 0): push = the entries appended, emit = the trace of the
\* iteration, err = TRUE when the iteration leaves the function with Err.
\* mutant: the "else { continue; }" of the name-filter block is taken for
\* every non-directory, filter or not
LoopBodyV1_skip_files(file_path) ==
    IF ~MetadataOk(file_path) \/ ~IsDir(file_path)
    THEN {[push |-> <<>>, emit |-> <<>>, err |-> FALSE]}
    ELSE {[push |-> <<FileEntry(file_path, raw, converted(raw, args.human_readable),
                                ListerPath(file_path))>>,
           emit |-> <<>>, err |-> FALSE] :
             raw \in calculate_dir_size(file_path, args.parallel)}

LoopBodyV1(file_path) ==
    LET \* file_path.metadata(), lines 112 and 138
        stat == <<FsCall("lister", "metadata", file_path)>>
        skip(t) == {[push |-> <<>>, emit |-> t, err |-> FALSE]}
        \* lines 145-153: the pairs (size_display, size_raw), with the trace
        sizes ==
            IF IsDir(file_path)
            THEN {<<converted(raw, args.human_readable), raw, t>> :
                     raw \in calculate_dir_size(file_path, args.parallel),
                     t \in calculate_dir_size_trace(file_path, args.parallel)}
            ELSE IF args.human_readable
            THEN {<<human_readable_size(len[file_path]), len[file_path], <<>>>>}
            ELSE {<<to_string(len[file_path]), len[file_path], <<>>>>}
        \* lines 138-180, entered with the trace so far
        build(pre) ==
            IF ~MetadataOk(file_path) THEN skip(pre \o stat)
            ELSE {[push |-> <<FileEntry(file_path, s[2], s[1], ListerPath(file_path))>>,
                   emit |-> pre \o stat \o s[3], err |-> FALSE] : s \in sizes}
    IN IF args.name # None
       THEN IF ~MetadataOk(file_path) THEN skip(stat)
            ELSE IF IsDir(file_path)
            THEN IF ~Contains(name[file_path], Unwrap(args.name))
                 THEN {[push |-> w, emit |-> stat \o t, err |-> FALSE] :
                          w \in calculate_dir_size1(file_path, args.parallel,
                                                    Unwrap(args.name)),
                          t \in calculate_dir_size1_trace(file_path, args.parallel,
                                                          Unwrap(args.name))}
                 ELSE build(stat)
            ELSE skip(stat)
       ELSE build(<<>>)

LoopBodyV2(i, file_path) ==
    LET head == HeadEvents(i, file_path)
        \* file_path.metadata(), lines 66 and 93
        stat == <<FsCall("lister", "metadata", file_path)>>
        skip(t) == {[push |-> <<>>, emit |-> t, err |-> FALSE]}
        \* lines 101-125: the pairs (size_display, size_raw), with the trace
        sizes ==
            IF IsDir(file_path)
            THEN {<<converted(raw, args.human_readable), raw,
                    <<emit_progress(Root, file_path, <<"calculating_directory_size">>)>>
                    \o t
                    \o <<emit_progress(Root, file_path,
                                       <<"directory_calculation_completed">>)>>>> :
                     raw \in calculate_dir_size_with_events_simple(file_path,
                                                                  args.parallel),
                     t \in calculate_dir_size_with_events_simple_trace(file_path,
                                                                      args.parallel)}
            ELSE IF args.human_readable
            THEN {<<human_readable_size(len[file_path]), len[file_path], <<>>>>}
            ELSE {<<to_string(len[file_path]), len[file_path], <<>>>>}
        \* lines 93-154, entered with the trace so far
        build(pre) ==
            IF ~MetadataOk(file_path) THEN skip(pre \o stat)
            ELSE {IF CreatedOk(file_path)
                  THEN [push |-> <<FileEntry(file_path, s[2], s[1],
                                             ListerPath(file_path))>>,
                        emit |-> pre \o stat \o s[3]
                                 \o <<emit_progress(Root, file_path, <<"completed">>)>>,
                        err |-> FALSE]
                  ELSE [push |-> <<>>, emit |-> pre \o stat \o s[3], err |-> TRUE] :
                     s \in sizes}
    IN IF args.name # None
       THEN IF ~MetadataOk(file_path) THEN skip(head \o stat)
            ELSE IF IsDir(file_path)
            THEN IF ~Contains(name[file_path], Unwrap(args.name))
                 THEN {[push |-> w, emit |-> head \o stat \o t, err |-> FALSE] :
                          w \in calculate_dir_size_with_events(file_path, args.parallel,
                                                               Unwrap(args.name)),
                          t \in calculate_dir_size_with_events_trace(
                                    file_path, args.parallel, Unwrap(args.name))}
                 ELSE build(head \o stat)
            ELSE skip(head \o stat)
       ELSE build(head)

\* mutant: the loop over the children is not under "if args.long_format"
ListChild_unguarded ==
    /\ pc = "loop"
    /\ index < Len(Iterated)
    /\ LET file_path == Join(Root, Iterated[index + 1])
       IN \E o \in (IF variant = "v1" THEN LoopBodyV1(file_path)
                    ELSE LoopBodyV2(index, file_path)) :
            /\ entries' = entries \o o.push
            /\ events' = events \o o.emit
            /\ IF o.err
               THEN /\ result' = <<"Err", "created">>
                    /\ pc' = "done"
               ELSE UNCHANGED <<result, pc>>
    /\ index' = index + 1
    /\ UNCHANGED <<fsvars, appvars, variant, args, files, sorted_files, aggDone>>

\* mutant: emit_progress hands the Result of emit back and the loop skips
\* the child ("continue") when its "processing" notification was not delivered
ListChild_emit_checked ==
    /\ pc = "loop"
    /\ args.long_format
    /\ index < Len(Iterated)
    /\ LET file_path == Join(Root, Iterated[index + 1])
           ordinal == Len(SelectSeq(events, IsEmit))
       IN IF variant = "v2" /\ <<ordinal, "emit">> \in faults
          THEN /\ events' = events \o HeadEvents(index, file_path)
               /\ UNCHANGED <<entries, result, pc>>
          ELSE \E o \in (IF variant = "v1" THEN LoopBodyV1(file_path)
                         ELSE LoopBodyV2(index, file_path)) :
                 /\ entries' = entries \o o.push
                 /\ events' = events \o o.emit
                 /\ IF o.err
                    THEN /\ result' = <<"Err", "created">>
                         /\ pc' = "done"
                    ELSE UNCHANGED <<result, pc>>
    /\ index' = index + 1
    /\ UNCHANGED <<fsvars, appvars, variant, args, files, sorted_files, aggDone>>

\* one iteration of "for file in files.iter()" / "sorted_files.iter().enumerate()"
ListChild ==
    /\ pc = "loop"
    /\ args.long_format
    /\ index < Len(Iterated)
    /\ LET file_path == Join(Root, Iterated[index + 1])
       IN \E o \in (IF variant = "v1" THEN LoopBodyV1(file_path)
                    ELSE LoopBodyV2(index, file_path)) :
            /\ entries' = entries \o o.push
            /\ events' = events \o o.emit
            /\ IF o.err
               THEN /\ result' = <<"Err", "created">>
                    /\ pc' = "done"
               ELSE UNCHANGED <<result, pc>>
    /\ index' = index + 1
    /\ UNCHANGED <<fsvars, appvars, variant, args, files, sorted_files, aggDone>>

\* after the loop: the size sort and Ok(entries); without long_format the
\* names are printed and the empty Vec is returned
ListFinish ==
    /\ pc = "loop"
    /\ ~args.long_format \/ index = Len(Iterated)
    /\ entries' = IF args.long_format /\ args.sort
                  THEN (IF variant = "v1" THEN sort_by_v1(entries)
                        ELSE sort_by_v2(entries))
                  ELSE entries
    /\ result' = <<"Ok", entries'>>
    /\ pc' = "done"
    /\ UNCHANGED <<fsvars, appvars, variant, args, files, sorted_files, index, events, aggDone>>

\* the call ends by a panic: between the collection of the names and the
\* loop both listers unwrap the Result of progress_bar_init(None), the
\* event-driven one under long_format (dir_listing_v2.rs 45), list_directory
\* always (dir_listing.rs 100, and 105 under long_format).  The thread
\* running the call unwinds; nothing is returned to the caller.
TaskPanics ==
    /\ pc = "loop" /\ index = 0
    /\ variant = "v1" \/ args.long_format
    /\ result' = <<"panic">>
    /\ pc' = "panicked"
    /\ UNCHANGED <<fsvars, appvars, variant, args, files, sorted_files, index, entries, events,
                   aggDone>>

NextList == ListStart \/ ListChild \/ ListFinish \/ TaskPanics

(***************************************************************************)
(* SpecList: both listers without a name filter                             *)
(***************************************************************************)
MaxListNodes == 3

MaxListFaults == 1

\* "B" < "a" < "ab" in byte order
ListNames == {<<66>>, <<97>>, <<97, 98>>}

\* names: free for the children of the root (the only names the lister
\* reads without a filter), the default below
NamesFor(k, p, S) ==
    {nm \in [1..k -> S \cup {DefaultName(n) : n \in 1..k}] :
        /\ \A n \in 1..k : IF p[n] = 0 THEN nm[n] \in S ELSE nm[n] = DefaultName(n)
        /\ \A m, n \in 1..k : (m # n /\ p[m] = 0 /\ p[n] = 0) => nm[m] # nm[n]}

\* the faults the listers can meet: created and canonicalize are only asked
\* of the children of the root
ListFaultsFor(k, p, kd) ==
    {f \in FaultsFor(k, kd, FaultKinds) :
        f[2] \in {"created", "canon"} => p[f[1]] = 0}

InitList ==
    /\ \E k \in 0..MaxListNodes :
         /\ parent \in ParentArrays(k)
         /\ kind \in KindsFor(k, parent)
         /\ name \in NamesFor(k, parent, ListNames)
         /\ len = [n \in 1..k |-> DefaultLen(n)]
         /\ faults \in SubsetsUpTo(ListFaultsFor(k, parent, kind), MaxListFaults)
    /\ variant \in {"v1", "v2"}
    /\ args \in [long_format : BOOLEAN, human_readable : {FALSE}, parallel : {TRUE},
                 sort : BOOLEAN, name : {None}]
    /\ pc = "start"
    /\ files = <<>>
    /\ sorted_files = <<>>
    /\ index = 0
    /\ entries = <<>>
    /\ result = <<"none">>
    /\ events = <<>>
    /\ aggDone = {}
    /\ AppIdle
    /\ readonly = {}
    /\ removed = {}

SpecList == InitList /\ [][NextList]_vars

(***************************************************************************)
(* Claims about the listers without a name filter (SpecList)                *)
(***************************************************************************)
Returned == result[2]

Finished == pc = "done"

ReturnedOk == pc = "done" /\ result[1] = "Ok"

\* what the traversal of the readable part of a node amounts to
ReadableSize(n) == IF IsDir(n) THEN SumLen(ReadableFilesUnder(n)) ELSE len[n]

\* C3 (as claimed): the call returns Err if and only if the root cannot be
\* opened, and then returns no entries; no failure below the root makes it
\* return Err.
C3_ErrIffRootUnreadable ==
    Finished =>
        /\ (result[1] = "Err") <=> ~ReadDirOk(Root)
        /\ ~ReadDirOk(Root) => result = <<"Err", "read_dir">>

\* C4: with long_format and no name filter the returned Vec holds exactly one
\* entry for each child of the root that the iterator yielded and whose metadata
\* read succeeded, each with that child's own name, type and readable size,
\* and nothing else; with no fault at all, as many entries as children.
C4_OneEntryPerReadChild ==
    (ReturnedOk /\ args.long_format /\ args.name = None) =>
        LET expected == {c \in Children(Root) : Yielded(c) /\ MetadataOk(c)}
        IN /\ Len(Returned) = Cardinality(expected)
           /\ {Returned[i].node : i \in 1..Len(Returned)} = expected
           /\ \A i \in 1..Len(Returned) :
                LET n == Returned[i].node
                IN /\ Returned[i].name = name[n]
                   /\ Returned[i].file_type = (IF kind[n] = "dir" THEN "d" ELSE "-")
                   /\ Returned[i].size_raw = ReadableSize(n)
           /\ faults = {} => Len(Returned) = Cardinality(Children(Root))

\* the event-driven lister has returned entries for the siblings of a child
\* whose metadata read failed
C4_Witness ==
    /\ ReturnedOk /\ args.long_format /\ args.name = None /\ variant = "v2"
    /\ \E c \in Children(Root) : ~MetadataOk(c) /\ Yielded(c)
    /\ Len(Returned) >= 2
    /\ \E i \in 1..Len(Returned) : Returned[i].file_type = "-"

Count(seq, x) == Cardinality({i \in 1..Len(seq) : seq[i] = x})

IsPermutation(a, b) ==
    /\ Len(a) = Len(b)
    /\ \A i \in 1..Len(a) : Count(a, a[i]) = Count(b, a[i])

NonDecreasing(seq) ==
    \A i, j \in 1..Len(seq) : i < j => seq[i].size_raw <= seq[j].size_raw

NonIncreasing(seq) ==
    \A i, j \in 1..Len(seq) : i < j => seq[i].size_raw >= seq[j].size_raw

\* C8: with sort set, the step that ends the scan turns the Vec built by the
\* loop (which is what the scan returns with sort unset) into a sequence that
\* is monotonic in size_raw and holds the same entries, each as often.
C8_SortIsMonotonePermutation ==
    [][(pc = "loop" /\ pc' = "done" /\ result'[1] = "Ok" /\ args.long_format /\ args.sort)
         => /\ IsPermutation(result'[2], entries)
            /\ NonDecreasing(result'[2]) \/ NonIncreasing(result'[2])]_vars

\* a sorted scan has returned three entries, two of equal size, in an order
\* that is not the name order they were built in
C8_Witness ==
    /\ ReturnedOk /\ args.long_format /\ args.sort /\ variant = "v1"
    /\ Len(Returned) >= 3
    /\ \E i, j \in 1..Len(Returned) :
         i < j /\ StrLess(Returned[j].name, Returned[i].name)
    /\ \E i, j \in 1..Len(Returned) :
         i # j /\ Returned[i].size_raw = Returned[j].size_raw

\* C9 (as claimed): with sort set both listers return the entries largest
\* first.
C9_SortedDescending ==
    (ReturnedOk /\ args.long_format /\ args.sort) => NonIncreasing(Returned)

NamesAscending(names) ==
    \A i, j \in 1..Len(names) : i < j => StrLess(names[i], names[j])

\* the base names the "processing" notifications were raised for, in order
ProcessingNames ==
    LET ps == SelectSeq(events, LAMBDA e : e[3] = <<"processing">>)
    IN [i \in 1..Len(ps) |-> name[ps[i][2]]]

\* C10 (as claimed): the children are processed in lexicographic order of
\* base name, so without sort and filter the returned entries are in
\* ascending name order, and so are the "processing" notifications.
C10_ProcessedInNameOrder ==
    (ReturnedOk /\ args.long_format /\ ~args.sort /\ args.name = None)
        => /\ NamesAscending([i \in 1..Len(Returned) |-> Returned[i].name])
           /\ NamesAscending(ProcessingNames)

(***************************************************************************)
(* SpecFilter: both listers with a name filter                              *)
(***************************************************************************)
MaxFilterNodes == 3

MaxFilterFaults == 1

\* "F", "a", "af", "f"
FilterNames == {<<70>>, <<97>>, <<97, 102>>, <<102>>}

\* the filter "f": "af" and "f" match it, "F" and "a" do not
Filters == {<<102>>}

\* a file name that contains "f": "f1", "f2", ...
MatchingFileName(n) == <<102, 48 + n>>

\* directories are named from S, siblings differently; the filtered scan
\* never reads the name of a file, and every file is given a name that
\* contains the filter
SiblingNames(k, p, kd, S) ==
    {nm \in [1..k -> S \cup {MatchingFileName(n) : n \in 1..k}] :
        /\ \A n \in 1..k :
              IF kd[n] = "dir" THEN nm[n] \in S ELSE nm[n] = MatchingFileName(n)
        /\ \A m, n \in 1..k : (m # n /\ p[m] = p[n]) => nm[m] # nm[n]}

\* the faults that decide what a filtered scan lists: enumeration, metadata
\* and read_dir anywhere, created on the children of the root
FilterFaultsFor(k, p, kd) ==
    {f \in FaultsFor(k, kd, {"enum", "stat", "open", "created"}) :
        f[2] = "created" => p[f[1]] = 0}

InitFilter ==
    /\ \E k \in 0..MaxFilterNodes :
         /\ parent \in ParentArrays(k)
         /\ kind \in KindsFor(k, parent)
         /\ name \in SiblingNames(k, parent, kind, FilterNames)
         /\ len = [n \in 1..k |-> DefaultLen(n)]
         /\ faults \in SubsetsUpTo(FilterFaultsFor(k, parent, kind), MaxFilterFaults)
    /\ variant \in {"v1", "v2"}
    /\ args \in [long_format : {TRUE}, human_readable : {FALSE}, parallel : {TRUE},
                 sort : {FALSE}, name : {Some(f) : f \in Filters}]
    /\ pc = "start"
    /\ files = <<>>
    /\ sorted_files = <<>>
    /\ index = 0
    /\ entries = <<>>
    /\ result = <<"none">>
    /\ events = <<>>
    /\ aggDone = {}
    /\ AppIdle
    /\ readonly = {}
    /\ removed = {}

SpecFilter == InitFilter /\ [][NextList]_vars

(***************************************************************************)
(* Claims about the listers with a name filter (SpecFilter)                 *)
(***************************************************************************)
\* pat occurs in s as a contiguous run of bytes, compared exactly
HasSubstring(s, pat) ==
    \E i \in 0..(Len(s) - Len(pat)) : SubSeq(s, i + 1, i + Len(pat)) = pat

Matches(n) == HasSubstring(name[n], Unwrap(args.name))

\* C5: with a name filter, every entry in the Vec (while it is built and when
\* it is returned) is a directory whose base name contains the filter,
\* compared byte for byte; no file and no other directory has an entry.
C5_EntriesAreMatchingDirs ==
    (args.name # None /\ pc \in {"loop", "done"}) =>
        \A i \in 1..Len(entries) :
            LET e == entries[i]
            IN /\ kind[e.node] = "dir"
               /\ e.file_type = "d"
               /\ e.name = name[e.node]
               /\ HasSubstring(e.name, Unwrap(args.name))

\* a filtered scan has returned a match found below the top level, on a tree
\* with a file named like the filter at the top level and a directory whose
\* name differs from the filter in case only
C5_Witness ==
    /\ ReturnedOk /\ args.name # None
    /\ \E n \in Children(Root) : kind[n] = "file" /\ Matches(n)
    /\ \E n \in Nodes : kind[n] = "dir" /\ name[n] = <<70>>
    /\ \E i \in 1..Len(Returned) :
         parent[Returned[i].node] # Root /\ Returned[i].name = <<97, 102>>

\* C6: with a name filter, no returned entry is for a directory below
\* another returned entry's directory, no directory has two entries, and
\* each entry's size_raw is the aggregate of its whole (readable) subtree.
C6_MatchesNotDescended ==
    (ReturnedOk /\ args.name # None) =>
        /\ \A i, j \in 1..Len(Returned) :
              i # j => /\ Returned[i].node # Returned[j].node
                       /\ Returned[i].node \notin Ancestors(Returned[j].node)
        /\ \A i \in 1..Len(Returned) :
              Returned[i].size_raw = SumLen(ReadableFilesUnder(Returned[i].node))

\* a returned directory of non-zero size holds a directory that matches too
C6_Witness ==
    /\ ReturnedOk /\ args.name # None
    /\ \E i \in 1..Len(Returned), d \in Nodes :
         /\ Returned[i].node \in Ancestors(d)
         /\ kind[d] = "dir" /\ Matches(d)
         /\ Returned[i].size_raw > 0

\* the directories a filtered scan is to list: matching, below no matching
\* directory, and reached through entries that enumerate and stat and
\* directories that open
TopmostMatches ==
    {d \in Nodes :
        /\ kind[d] = "dir" /\ Matches(d)
        /\ \A a \in Ancestors(d) \ {Root} : ~Matches(a) /\ ReadDirOk(a)
        /\ \A m \in Below(Root, d) : Yielded(m) /\ MetadataOk(m)}

\* C7: with a name filter the returned Vec holds exactly one entry for every
\* matching directory that lies below no matching directory, at any depth,
\* provided the way down to it can be read; a directory that cannot be read
\* loses only the matches beneath itself.
C7_ExactlyTopmostMatches ==
    (ReturnedOk /\ args.name # None) =>
        /\ {Returned[i].node : i \in 1..Len(Returned)} = TopmostMatches
        /\ Len(Returned) = Cardinality(TopmostMatches)
        /\ faults = {} =>
              \A d \in Nodes :
                  (kind[d] = "dir" /\ Matches(d)
                     /\ \A a \in Ancestors(d) \ {Root} : ~Matches(a))
                  => \E i \in 1..Len(Returned) : Returned[i].node = d

\* a match two levels down has been returned although a directory next to
\* its parent, not matching, could not be opened
C7_Witness ==
    /\ ReturnedOk /\ args.name # None
    /\ \E d \in Children(Root), i \in 1..Len(Returned) :
         /\ kind[d] = "dir" /\ ~Matches(d) /\ ~ReadDirOk(d)
         /\ parent[Returned[i].node] # Root
         /\ parent[Returned[i].node] # d

(***************************************************************************)
(* SpecPath: both listers, with and without a name filter, on trees where  *)
(* canonicalize() fails for some nodes                                      *)
(***************************************************************************)
MaxPathNodes == 3

MaxPathFaults == 1

InitPath ==
    /\ \E k \in 0..MaxPathNodes :
         /\ parent \in ParentArrays(k)
         /\ kind \in KindsFor(k, parent)
         /\ name \in SiblingNames(k, parent, kind, FilterNames)
         /\ len = [n \in 1..k |-> DefaultLen(n)]
         /\ faults \in SubsetsUpTo({<<n, "canon">> : n \in 1..k}, MaxPathFaults)
    /\ variant \in {"v1", "v2"}
    /\ args \in [long_format : {TRUE}, human_readable : {FALSE}, parallel : BOOLEAN,
                 sort : {FALSE}, name : {None} \cup {Some(f) : f \in Filters}]
    /\ pc = "start"
    /\ files = <<>>
    /\ sorted_files = <<>>
    /\ index = 0
    /\ entries = <<>>
    /\ result = <<"none">>
    /\ events = <<>>
    /\ aggDone = {}
    /\ AppIdle
    /\ readonly = {}
    /\ removed = {}

SpecPath == InitPath /\ [][NextList]_vars

\* C11 (as claimed): an entry is produced whether or not canonicalize() of
\* its path succeeds, and when canonicalize() fails the entry's path is the
\* path the scan built for it by join (never the empty string), for entries
\* of the top-level loop and of the name-filter walker alike.
C11_PathFallsBackToJoined ==
    ReturnedOk =>
        /\ \A i \in 1..Len(Returned) :
              ~CanonicalizeOk(Returned[i].node)
                  => Returned[i].path = <<"joined", Returned[i].node>>
        /\ {Returned[i].node : i \in 1..Len(Returned)}
              = (IF args.name = None THEN Children(Root) ELSE TopmostMatches)

(***************************************************************************)
(* SpecDisplay: both listers, with and without a name filter, with and     *)
(* without human_readable, on trees whose files have lengths on both sides *)
(* of the unit boundaries                                                   *)
(***************************************************************************)
MaxDisplayNodes == 3

\* 0, just below 1 KB, 1.5 KB, 1 MB, 10 bytes, 1 GB
DisplaySizes == <<0, 1023, 1536, 1048576, 10, 1073741824>>

DisplayLen(n) == DisplaySizes[((n - 1) % Len(DisplaySizes)) + 1]

\* "a" does not match the filter "f", "f" does
DisplayNames == {<<97>>, <<102>>}

InitDisplay ==
    /\ \E k \in 0..MaxDisplayNodes :
         /\ parent \in ParentArrays(k)
         /\ kind \in KindsFor(k, parent)
         /\ name \in SiblingNames(k, parent, kind, DisplayNames)
         /\ len = [n \in 1..k |-> DisplayLen(n)]
    /\ faults = {}
    /\ variant \in {"v1", "v2"}
    /\ args \in [long_format : {TRUE}, human_readable : BOOLEAN, parallel : {TRUE},
                 sort : BOOLEAN, name : {None} \cup {Some(f) : f \in Filters}]
    /\ pc = "start"
    /\ files = <<>>
    /\ sorted_files = <<>>
    /\ index = 0
    /\ entries = <<>>
    /\ result = <<"none">>
    /\ events = <<>>
    /\ aggDone = {}
    /\ AppIdle
    /\ readonly = {}
    /\ removed = {}

SpecDisplay == InitDisplay /\ [][NextList]_vars

\* SizeFormatter (spec 4.4): format(bytes, humanReadable)
format(bytes, humanReadable) ==
    IF humanReadable THEN human_readable_size(bytes) ELSE to_string(bytes)

RECURSIVE DecimalValue(_)
\* the number a string of decimal digits denotes
DecimalValue(str) ==
    IF str = <<>> THEN 0
    ELSE 10 * DecimalValue(SubSeq(str, 1, Len(str) - 1)) + (str[Len(str)] - 48)

\* str is the decimal string of n: digits only, no leading zero, value n
IsDecimalOf(str, n) ==
    /\ Len(str) >= 1
    /\ \A i \in 1..Len(str) : str[i] >= 48 /\ str[i] <= 57
    /\ Len(str) > 1 => str[1] # 48
    /\ DecimalValue(str) = n

\* C12: every entry of the Vec, while it is built and when it is returned,
\* whether built for a file, for a top-level directory or by the walker for
\* a match, has size_display = format(size_raw, human_readable); without
\* human_readable, size_display is the decimal string of size_raw.
C12_DisplayIsFormatOfRaw ==
    \A i \in 1..Len(entries) :
        /\ entries[i].size_display = format(entries[i].size_raw, args.human_readable)
        /\ ~args.human_readable
              => IsDecimalOf(entries[i].size_display, entries[i].size_raw)

\* a filtered scan with human_readable has returned a match found by the
\* walker whose size is in the KB range, and an unfiltered one would list a
\* file next to it
C12_Witness ==
    /\ ReturnedOk /\ args.human_readable /\ args.name # None
    /\ \E i \in 1..Len(Returned) :
         /\ parent[Returned[i].node] # Root
         /\ Returned[i].size_raw >= 1024
         /\ Returned[i].size_display = <<49, 46, 53, 48, 32, 75, 66>>

(***************************************************************************)
(* SpecEmit: list_directory_with_events with a sink that fails to deliver  *)
(* some notifications.  A fault <<i, "emit">> makes the i-th call of       *)
(* app_handle.emit of the scan (counted from 0) return Err.                *)
(***************************************************************************)
MaxEmitNodes == 3

MaxEmitFaults == 1

\* the calls of emit that may fail are among the first MaxFailOrdinal
MaxFailOrdinal == 4

InitEmit ==
    /\ \E k \in 0..MaxEmitNodes :
         /\ parent \in ParentArrays(k)
         /\ kind \in KindsFor(k, parent)
         /\ name \in SiblingNames(k, parent, kind, DisplayNames)
         /\ len = [n \in 1..k |-> DefaultLen(n)]
    /\ faults \in SubsetsUpTo({<<i, "emit">> : i \in 0..(MaxFailOrdinal - 1)},
                              MaxEmitFaults)
    /\ variant = "v2"
    /\ args \in [long_format : {TRUE}, human_readable : {FALSE}, parallel : {TRUE},
                 sort : BOOLEAN, name : {None} \cup {Some(f) : f \in Filters}]
    /\ pc = "start"
    /\ files = <<>>
    /\ sorted_files = <<>>
    /\ index = 0
    /\ entries = <<>>
    /\ result = <<"none">>
    /\ events = <<>>
    /\ aggDone = {}
    /\ AppIdle
    /\ readonly = {}
    /\ removed = {}

SpecEmit == InitEmit /\ [][NextList]_vars

\* the notifications of the trace, and those among them that were delivered
Emitted == SelectSeq(events, IsEmit)

EmitFailed(i) == <<i, "emit">> \in faults

\* What a scan of the tree returns, stated from the tree and the arguments
\* alone.  Without a filter: one entry per child of the root that is
\* enumerated and stat'ed, in enumeration order, then the size sort.
UnfilteredEntries ==
    LET read == SelectSeq(OkItems(Root), MetadataOk)
        base == [i \in 1..Len(read) |->
                    FileEntry(read[i], ReadableSize(read[i]),
                              format(ReadableSize(read[i]), args.human_readable),
                              ListerPath(read[i]))]
    IN IF args.sort THEN sort_by_v2(base) ELSE base

RECURSIVE MatchSeq(_), MatchSeqOver(_, _)
\* the topmost matching directories below d, depth first in enumeration order
MatchSeqOver(es, i) ==
    IF i > Len(es) THEN <<>>
    ELSE (IF MetadataOk(es[i]) /\ IsDir(es[i])
          THEN IF Matches(es[i]) THEN <<es[i]>> ELSE MatchSeq(es[i])
          ELSE <<>>)
         \o MatchSeqOver(es, i + 1)

MatchSeq(d) == IF ReadDirOk(d) THEN MatchSeqOver(OkItems(d), 1) ELSE <<>>

\* With a filter: one entry per topmost matching directory, in that order,
\* then the size sort.
FilteredEntries ==
    LET found == MatchSeq(Root)
        base == [i \in 1..Len(found) |->
                    FileEntry(found[i], ReadableSize(found[i]),
                              format(ReadableSize(found[i]), args.human_readable),
                              IF parent[found[i]] = Root THEN ListerPath(found[i])
                              ELSE WalkerPath(found[i]))]
    IN IF args.sort THEN sort_by_v2(base) ELSE base

\* C13: whichever calls of emit fail, the event-driven scan returns the
\* result that the tree and the arguments determine, and the failure of an
\* emit neither ends the scan nor makes it skip a child: every iteration
\* raises its "processing" notification and stats its child.
C13_ResultIndependentOfDelivery ==
    /\ pc \in {"loop", "done"} =>
          /\ Len(SelectSeq(events, LAMBDA e : e[3] = <<"processing">>)) = index
          /\ Len(SelectSeq(events, LAMBDA e : e[3] = <<"fs", "metadata", "lister">>))
                >= index
    /\ Finished =>
          /\ result[1] = "Ok"
          /\ index = Len(sorted_files)
          /\ Returned = (IF args.name = None THEN UnfilteredEntries
                         ELSE FilteredEntries)

\* a scan has returned a directory and another entry although the delivery
\* of one of the notifications it raised had failed
C13_Witness ==
    /\ ReturnedOk
    /\ \E i \in 0..(Len(Emitted) - 1) : EmitFailed(i)
    /\ Len(Returned) >= 2
    /\ \E i \in 1..Len(Returned) : Returned[i].file_type = "d" /\ Returned[i].size_raw > 0

(***************************************************************************)
(* Claims about parallel aggregation (SpecList: parallel is set)            *)
(***************************************************************************)
\* the outcomes the next iteration of the loop can have
NextOutcomes ==
    LET file_path == Join(Root, Iterated[index + 1])
    IN IF variant = "v1" THEN LoopBodyV1(file_path)
       ELSE LoopBodyV2(index, file_path)

\* C14: with parallel aggregation, the outcomes an iteration of the loop
\* can have under the different schedules of the workers differ in the order
\* of the calls and notifications only: all of them append the same entries
\* (the parallel branches hand back sums, they push nothing), and the Vec
\* grows only by what the iteration of the listing loop appends, at its end.
\* So every scan of the tree ends with the same entries, each with the
\* size_raw that the readable files below it add up to.
C14_InterleavingsAgree ==
    /\ (pc = "loop" /\ args.long_format /\ args.parallel /\ index < Len(Iterated)) =>
          \A o1, o2 \in NextOutcomes :
              /\ o1.push = o2.push /\ o1.err = o2.err
              /\ Len(o1.push) <= 1
    /\ (ReturnedOk /\ args.long_format /\ args.parallel) =>
          \A i \in 1..Len(Returned) :
              Returned[i].size_raw = ReadableSize(Returned[i].node)

\* a parallel scan has returned a directory of two readable files that
\* were stat'ed by the workers in the order opposite to their enumeration
C14_Witness ==
    /\ ReturnedOk /\ args.long_format /\ args.parallel
    /\ \E i \in 1..Len(Returned) :
         /\ Returned[i].file_type = "d"
         /\ Cardinality(ReadableFilesUnder(Returned[i].node)) >= 2
    /\ \E i, j \in 1..Len(events) :
         /\ i < j
         /\ IsFsCall(events[i], "metadata") /\ IsFsCall(events[j], "metadata")
         /\ events[i][2] > events[j][2]
         /\ parent[events[i][2]] = parent[events[j][2]]
         /\ parent[events[i][2]] # Root

(***************************************************************************)
(* SpecTerm: both listers, with and without a name filter, run by a thread *)
(* that is scheduled as long as it has a step to take (the scan is the     *)
(* body of one blocking task and waits for nothing but the filesystem)     *)
(* and may panic where the listers unwrap progress_bar_init                *)
(***************************************************************************)
MaxTermNodes == 3

MaxTermFaults == 1

InitTerm ==
    /\ \E k \in 0..MaxTermNodes :
         /\ parent \in ParentArrays(k)
         /\ kind \in KindsFor(k, parent)
         /\ name \in SiblingNames(k, parent, kind, DisplayNames)
         /\ len = [n \in 1..k |-> DefaultLen(n)]
         /\ faults \in SubsetsUpTo(FilterFaultsFor(k, parent, kind), MaxTermFaults)
    /\ variant \in {"v1", "v2"}
    /\ args \in [long_format : BOOLEAN, human_readable : {FALSE}, parallel : BOOLEAN,
                 sort : BOOLEAN, name : {None} \cup {Some(f) : f \in Filters}]
    /\ pc = "start"
    /\ files = <<>>
    /\ sorted_files = <<>>
    /\ index = 0
    /\ entries = <<>>
    /\ result = <<"none">>
    /\ events = <<>>
    /\ aggDone = {}
    /\ AppIdle
    /\ readonly = {}
    /\ removed = {}

SpecTerm == InitTerm /\ [][NextList]_vars /\ WF_vars(NextList)

\* the number of times the scan has opened directory d with fs::read_dir
Opens(d) ==
    Len(SelectSeq(events, LAMBDA e : IsFsCall(e, "read_dir") /\ e[2] = d))

OpensAtMostOnce == \A d \in Nodes \cup {Root} : Opens(d) <= 1

\* a scan ends only by returning an Err of the filesystem (of the root's
\* read_dir; in the event-driven lister also of created(), see C3) or after
\* the last iteration of its loop
EndsOnlyWhenThrough ==
    Finished =>
        \/ result = <<"Err", "read_dir">> /\ ~ReadDirOk(Root)
        \/ /\ result = <<"Err", "created">> /\ variant = "v2"
           /\ ~CreatedOk(Join(Root, Iterated[index]))
        \/ /\ result[1] = "Ok"
           /\ args.long_format => index = Len(Iterated)

\* every step of a scan brings it nearer to its end: it returns, or it
\* enters the loop, or it completes one more of the iterations there are
StepAdvances ==
    \/ pc' = "done"
    \/ pc = "start" /\ pc' = "loop" /\ index' = 0
    \/ pc = "loop" /\ pc' = "loop" /\ index' = index + 1 /\ index' <= Len(Iterated)

\* the scan has a step to take: the guard of ListStart, of ListChild (which
\* has an outcome for every child) or of ListFinish holds
Runnable ==
    \/ pc = "start"
    \/ pc = "loop" /\ args.long_format /\ index < Len(Iterated) /\ NextOutcomes # {}
    \/ pc = "loop" /\ (~args.long_format \/ index = Len(Iterated))

\* C15: on a finite tree (a tree of the model has no directory below
\* itself), a started scan returns Ok or Err: as long as it has not
\* returned it has a step to take, and every step advances it through a
\* loop of as many iterations as the root has names, so the thread running
\* it reaches the return.  On the way the lister, the aggregator and the
\* walker together open no directory twice, and the scan ends only when
\* the root cannot be opened or the loop is through.
C15_ScanRunsToCompletion ==
    /\ [](OpensAtMostOnce /\ EndsOnlyWhenThrough /\ (Finished \/ Runnable))
    /\ [][StepAdvances]_vars

\* SpecTerm with its weak fairness written out, WF_vars(A) being
\* []<>(~ENABLED <<A>>_vars) \/ []<><<A>>_vars: a step of NextList is
\* enabled exactly when Runnable holds (TaskPanics is enabled only where
\* ListChild or ListFinish is), and every step changes pc or index
SpecTermFair ==
    InitTerm /\ [][NextList]_vars /\ ([]<>(~Runnable) \/ []<><<NextList>>_vars)

\* every call ends, by a return or by the panic of TaskPanics
ScanEnds == <>(Finished \/ pc = "panicked")

\* every call ends by a return
ScanReturns == <>Finished

\* C16: without long_format a scan makes one filesystem call, the read_dir
\* of the root: it stats no child, opens no other directory (so sizes no
\* directory), raises no notification, builds no entry, and returns Ok with
\* the empty Vec whenever the root can be opened, whatever name, parallel
\* and sort are.
C16_NamesOnlyReadsNothing ==
    (~args.long_format /\ pc # "start") =>
        /\ events = <<FsCall("lister", "read_dir", Root)>>
        /\ entries = <<>>
        /\ pc = "loop" => index = 0
        /\ Finished => (IF ReadDirOk(Root) THEN result = <<"Ok", <<>>>>
                        ELSE result = <<"Err", "read_dir">>)

\* a scan without long_format, with a name filter, parallel and sort set,
\* has returned Ok and no entry for a root that holds a matching directory
\* with a file in it
C16_Witness ==
    /\ ReturnedOk /\ ~args.long_format
    /\ args.name # None /\ args.parallel /\ args.sort
    /\ Returned = <<>>
    /\ \E d \in Children(Root) :
         kind[d] = "dir" /\ Matches(d) /\ ReadableFilesUnder(d) # {}

(***************************************************************************)
(* SpecNotify: list_directory_with_events with long_format, with and       *)
(* without a name filter, sequential and parallel, on trees deep enough    *)
(* for two parallel branches of the aggregator of which one descends       *)
(***************************************************************************)
MaxNotifyNodes == 4

MaxNotifyFaults == 1

InitNotify ==
    /\ \E k \in 0..MaxNotifyNodes :
         /\ parent \in ParentArrays(k)
         /\ kind \in KindsFor(k, parent)
         /\ name \in SiblingNames(k, parent, kind, DisplayNames)
         /\ len = [n \in 1..k |-> DefaultLen(n)]
         /\ faults \in SubsetsUpTo(FilterFaultsFor(k, parent, kind), MaxNotifyFaults)
    /\ variant = "v2"
    /\ args \in [long_format : {TRUE}, human_readable : {FALSE}, parallel : BOOLEAN,
                 sort : {FALSE}, name : {None} \cup {Some(f) : f \in Filters}]
    /\ pc = "start"
    /\ files = <<>>
    /\ sorted_files = <<>>
    /\ index = 0
    /\ entries = <<>>
    /\ result = <<"none">>
    /\ events = <<>>
    /\ aggDone = {}
    /\ AppIdle
    /\ readonly = {}
    /\ removed = {}

SpecNotify == InitNotify /\ [][NextList]_vars

Range(seq) == {seq[i] : i \in 1..Len(seq)}

\* c and everything below it
Within(c) == {c} \cup {n \in Nodes : c \in Ancestors(n)}

\* the positions of the trace that hold event e
Positions(e) == {i \in 1..Len(events) : events[i] = e}

IsAggregatorCall(e) == e[3][1] = "fs" /\ e[3][3] = "aggregator"

\* the nodes the aggregator handled as an entry of a directory it read
AggregatorEntries ==
    {n \in Nodes :
        \/ FsCall("aggregator", "metadata", n) \in Range(events)
        \/ emit_progress(parent[n], n, <<"processing_file">>) \in Range(events)}

\* "processing" is raised once for a child of the root, and nothing that
\* reads the child or anything below it, and no other notification about
\* it, comes before
ProcessingComesFirst ==
    \A c \in Children(Root) :
        LET processing == emit_progress(Root, c, <<"processing">>)
        IN /\ Cardinality(Positions(processing)) <= 1
           /\ \A j \in 1..Len(events) :
                 (events[j][2] \in Within(c) /\ events[j] # processing) =>
                     \E i \in 1..(j - 1) : events[i] = processing

\* "processing_file" is raised once for an entry of the aggregator, and no
\* call the aggregator makes on the entry or below it comes before
ProcessingFileComesFirst ==
    \A e \in AggregatorEntries :
        LET processing_file == emit_progress(parent[e], e, <<"processing_file">>)
        IN /\ Cardinality(Positions(processing_file)) = 1
           /\ \A j \in 1..Len(events) :
                 (IsAggregatorCall(events[j]) /\ events[j][2] \in Within(e)) =>
                     \E i \in 1..(j - 1) : events[i] = processing_file

\* C17: in list_directory_with_events a notification naming an entry is
\* never raised after the entry was processed: the "processing" of a child
\* of the root precedes every filesystem call and every other notification
\* on the child and below it, and the "processing_file" of an entry of the
\* aggregator precedes every call of the aggregator on the entry and below
\* it, however the parallel branches interleave.
C17_NoticePrecedesProcessing ==
    ProcessingComesFirst /\ ProcessingFileComesFirst

\* a parallel scan in which the branch of a later entry ran between the
\* calls of the branch of an earlier one, which descended: the notification
\* for the entry below came after the other branch's metadata call
C17_Witness ==
    /\ Finished /\ args.parallel
    /\ \E e1, e2, x \in Nodes :
         /\ parent[e1] = parent[e2] /\ e1 < e2 /\ parent[x] = e1
         /\ \E i, j, k \in 1..Len(events) :
              /\ i < j /\ j < k
              /\ events[i] = FsCall("aggregator", "metadata", e1)
              /\ events[j] = FsCall("aggregator", "metadata", e2)
              /\ events[k] = emit_progress(e1, x, <<"processing_file">>)

\* the statuses of the notifications list_directory_with_events raised
\* about child c of the root in its own loop (current_path is the root), in
\* the order raised
Transitions(c) ==
    LET about(e) == /\ e[1] = Root /\ e[2] = c
                    /\ e[3] \in {<<"processing">>, <<"calculating_directory_size">>,
                                 <<"directory_calculation_completed">>, <<"completed">>}
        own == SelectSeq(events, about)
    IN [i \in 1..Len(own) |-> own[i][3][1]]

\* C18: without a name filter, once the iteration for a child of the root
\* is over the notifications about the child were "processing", for a
\* directory "calculating_directory_size" and
\* "directory_calculation_completed", and "completed", each once and in
\* this order.
C18_TransitionsInOrder ==
    (args.name = None /\ args.long_format /\ pc # "start") =>
        \A k \in 1..index :
            LET c == Join(Root, Iterated[k])
            IN Transitions(c) =
                 IF kind[c] = "dir"
                 THEN <<"processing", "calculating_directory_size",
                        "directory_calculation_completed", "completed">>
                 ELSE <<"processing", "completed">>

(***************************************************************************)
(* SpecProgress: list_directory_with_events on a root with many children   *)
(***************************************************************************)
MaxProgressFiles == 12

MaxProgressFaults == 1

\* a root that holds k files and nothing else; any of them may fail to stat
InitProgress ==
    /\ \E k \in 0..MaxProgressFiles :
         /\ parent = [n \in 1..k |-> Root]
         /\ kind = [n \in 1..k |-> "file"]
         /\ name = [n \in 1..k |-> DefaultName(n)]
         /\ len = [n \in 1..k |-> DefaultLen(n)]
         /\ faults \in SubsetsUpTo({<<n, "stat">> : n \in 1..k}, MaxProgressFaults)
    /\ variant = "v2"
    /\ args \in [long_format : {TRUE}, human_readable : {FALSE}, parallel : BOOLEAN,
                 sort : BOOLEAN, name : {None} \cup {Some(f) : f \in Filters}]
    /\ pc = "start"
    /\ files = <<>>
    /\ sorted_files = <<>>
    /\ index = 0
    /\ entries = <<>>
    /\ result = <<"none">>
    /\ events = <<>>
    /\ aggDone = {}
    /\ AppIdle
    /\ readonly = {}
    /\ removed = {}

SpecProgress == InitProgress /\ [][NextList]_vars

\* the N of the "progress_N%" notifications raised so far, in order
ProgressPercents ==
    LET own == SelectSeq(events, LAMBDA e : e[3][1] = "progress")
    IN [i \in 1..Len(own) |-> own[i][3][2]]

\* every N is an integer from 0 to 99 and no N is less than the one before
PercentsInRange ==
    /\ \A i \in 1..Len(ProgressPercents) : ProgressPercents[i] \in 0..99
    /\ \A i \in 2..Len(ProgressPercents) :
          ProgressPercents[i - 1] <= ProgressPercents[i]

\* C19: one scan raises at most 11 "progress_N%" notifications, with N an
\* integer from 0 to 99 that never decreases, whatever the number of
\* children of the root (none included).
C19_ProgressAtMilestonesOnly ==
    /\ Len(ProgressPercents) <= 11
    /\ PercentsInRange

(***************************************************************************)
(* delete_file (lib.rs 113-160)                                            *)
(*                                                                         *)
(* args is the pair of arguments [path, force]; path is a node of the tree *)
(* or NoSuchPath.  events holds the mutating filesystem calls made, result *)
(* the value returned: <<"Ok">> or <<"Err", cause>> with cause             *)
(*   "not_found"       line 119   "metadata"     line 137                  *)
(*   "readonly"        line 127   "set_permissions" line 133               *)
(*   "invalid_type"    line 147                                            *)
(*   "access_denied" (os error 5), "in_use" (32), "missing" (2),           *)
(*   "not_empty" (145), "other"   lines 152-158                            *)
(***************************************************************************)
NoSuchPath == 0 - 1

\* Path::exists(): the metadata of the path can be read
Exists(path) == path \in Nodes \ removed /\ MetadataOk(path)

\* raw_os_error() of a failed removal; 1 stands for every other code
OsErrors == {5, 32, 2, 145, 1}

\* lines 152-158
ErrorMessage(code) ==
    CASE code = 5 -> "access_denied"
      [] code = 32 -> "in_use"
      [] code = 2 -> "missing"
      [] code = 145 -> "not_empty"
      [] OTHER -> "other"

\* the sets of nodes below path that a failed remove_dir_all may already
\* have removed: with a node, everything below it
PartlyRemoved(path) ==
    {S \in SUBSET (Within(path) \ {path}) :
        \A n \in S : Within(n) \subseteq S}

\* Path::is_file() and Path::is_dir() (lines 141, 143): each reads the
\* metadata of the path again and is false when that read fails; ok tells
\* whether the read succeeds
is_file(path, ok) == ok /\ kind[path] = "file"

is_dir(path, ok) == ok /\ kind[path] = "dir"

\* the outcomes of lines 141-159, reached with the read-only bits ro:
\* remove_file or remove_dir_all succeeds or fails with an os error; when
\* neither is_file() nor is_dir() holds nothing is removed
Removal(path, ro, is_file_ok, is_dir_ok) ==
    IF is_file(path, is_file_ok)
    THEN LET call == <<FsCall("delete_file", "remove_file", path)>>
         IN {[result |-> <<"Ok">>, readonly |-> ro \ {path},
              removed |-> removed \cup {path}, calls |-> call]}
            \cup {[result |-> <<"Err", ErrorMessage(code)>>, readonly |-> ro,
                   removed |-> removed, calls |-> call] : code \in OsErrors}
    ELSE IF is_dir(path, is_dir_ok)
    THEN LET call == <<FsCall("delete_file", "remove_dir_all", path)>>
         IN {[result |-> <<"Ok">>, readonly |-> ro \ Within(path),
              removed |-> removed \cup Within(path), calls |-> call]}
            \cup {[result |-> <<"Err", ErrorMessage(code)>>, readonly |-> ro \ gone,
                   removed |-> removed \cup gone, calls |-> call] :
                     code \in OsErrors, gone \in PartlyRemoved(path)}
    ELSE {[result |-> <<"Err", "invalid_type">>, readonly |-> ro, removed |-> removed,
           calls |-> <<>>]}

\* mutant: the read-only bit is cleared whether force is set or not
delete_file_always_forced(path, force, metadata_ok, is_file_ok, is_dir_ok) ==
    IF ~Exists(path)
    THEN {[result |-> <<"Err", "not_found">>, readonly |-> readonly, removed |-> removed,
           calls |-> <<>>]}
    ELSE IF ~metadata_ok
    THEN {[result |-> <<"Err", "metadata">>, readonly |-> readonly, removed |-> removed,
           calls |-> <<>>]}
    ELSE IF path \in readonly
    THEN LET chmod == <<FsCall("delete_file", "set_permissions", path)>>
         IN IF <<path, "chmod">> \in faults
            THEN {[result |-> <<"Err", "set_permissions">>, readonly |-> readonly,
                   removed |-> removed, calls |-> chmod]}
            ELSE {[o EXCEPT !.calls = chmod \o o.calls] :
                     o \in Removal(path, readonly \ {path}, is_file_ok, is_dir_ok)}
    ELSE Removal(path, readonly, is_file_ok, is_dir_ok)

\* the outcomes of delete_file(path, force); metadata_ok, is_file_ok and
\* is_dir_ok tell whether the metadata reads of lines 123, 141 and 143
\* succeed after the one of Path::exists (line 118) did
delete_file(path, force, metadata_ok, is_file_ok, is_dir_ok) ==
    IF ~Exists(path)
    THEN {[result |-> <<"Err", "not_found">>, readonly |-> readonly, removed |-> removed,
           calls |-> <<>>]}
    ELSE IF ~metadata_ok
    THEN {[result |-> <<"Err", "metadata">>, readonly |-> readonly, removed |-> removed,
           calls |-> <<>>]}
    ELSE IF path \in readonly
    THEN IF ~force
         THEN {[result |-> <<"Err", "readonly">>, readonly |-> readonly,
                removed |-> removed, calls |-> <<>>]}
         ELSE LET chmod == <<FsCall("delete_file", "set_permissions", path)>>
              IN IF <<path, "chmod">> \in faults
                 THEN {[result |-> <<"Err", "set_permissions">>, readonly |-> readonly,
                        removed |-> removed, calls |-> chmod]}
                 ELSE {[o EXCEPT !.calls = chmod \o o.calls] :
                          o \in Removal(path, readonly \ {path}, is_file_ok, is_dir_ok)}
    ELSE Removal(path, readonly, is_file_ok, is_dir_ok)

\* one call of the command
DeleteFile ==
    /\ pc = "idle"
    /\ \E metadata_ok, is_file_ok, is_dir_ok \in BOOLEAN :
         \E o \in delete_file(args.path, args.force, metadata_ok, is_file_ok, is_dir_ok) :
            /\ result' = o.result
            /\ readonly' = o.readonly
            /\ removed' = o.removed
            /\ events' = events \o o.calls
    /\ pc' = "done"
    /\ UNCHANGED <<appvars, parent, kind, name, len, faults, variant, args, files,
                   sorted_files, index, entries, aggDone>>

NextDelete == DeleteFile

(***************************************************************************)
(* SpecDelete: one call of delete_file on a tree of files, directories and *)
(* nodes that are neither, some of them read-only                          *)
(***************************************************************************)
MaxDeleteNodes == 3

MaxDeleteFaults == 1

\* every parent is a directory; a node without children may be neither a
\* file nor a directory
DeleteKindsFor(k, p) ==
    {kd \in [1..k -> {"file", "dir", "other"}] :
        \A n \in 1..k : p[n] = 0 \/ kd[p[n]] = "dir"}

InitDelete ==
    /\ \E k \in 0..MaxDeleteNodes :
         /\ parent \in ParentArrays(k)
         /\ kind \in DeleteKindsFor(k, parent)
         /\ name = [n \in 1..k |-> DefaultName(n)]
         /\ len = [n \in 1..k |-> DefaultLen(n)]
         /\ faults \in SubsetsUpTo({<<n, f>> : n \in 1..k, f \in {"stat", "chmod"}},
                                   MaxDeleteFaults)
         /\ readonly \in SUBSET (1..k)
         /\ args \in [path : (1..k) \cup {NoSuchPath}, force : BOOLEAN]
    /\ removed = {}
    /\ variant = "v1"
    /\ pc = "idle"
    /\ files = <<>>
    /\ sorted_files = <<>>
    /\ index = 0
    /\ entries = <<>>
    /\ result = <<"none">>
    /\ events = <<>>
    /\ aggDone = {}
    /\ AppIdle

SpecDelete == InitDelete /\ [][NextDelete]_vars

\* the mutating filesystem calls the call has made
Mutations(trace) ==
    SelectSeq(trace, LAMBDA e : e[3][1] = "fs" /\ e[3][3] = "delete_file")

Attempted(trace, op) ==
    \E i \in 1..Len(trace) : trace[i][3] = <<"fs", op, "delete_file">>

RemovalAttempted(trace) ==
    Attempted(trace, "remove_file") \/ Attempted(trace, "remove_dir_all")

\* what a call of delete_file does, told from the state before and after
DeleteStep ==
    LET path == args.path
        target_readonly == Exists(path) /\ path \in readonly
    IN /\ (target_readonly /\ ~args.force) =>
             /\ result'[1] = "Err"
             /\ Mutations(events') = <<>>
             /\ readonly' = readonly /\ removed' = removed
       /\ (readonly' # readonly \cap (Nodes \ removed')
             \/ Attempted(events', "set_permissions")) =>
             args.force /\ target_readonly
       /\ (target_readonly /\ RemovalAttempted(events')) =>
             /\ args.force
             /\ Mutations(events')[1] = FsCall("delete_file", "set_permissions", path)
       /\ ~Exists(path) =>
             /\ result' = <<"Err", "not_found">>
             /\ Mutations(events') = <<>>
             /\ readonly' = readonly /\ removed' = removed

\* C20: a call of delete_file on a read-only target without force returns
\* Err and changes nothing; the read-only bit is cleared only with force,
\* on a read-only target, and a read-only target is removed only with force
\* and after set_permissions; a path that does not exist is rejected with
\* no mutating call made.
C20_ReadOnlyNeedsForce == [][pc = "idle" => DeleteStep]_vars

\* a call without force on a read-only file has returned the read-only
\* error, and the file is there and still read-only
C20_Witness ==
    /\ pc = "done" /\ ~args.force
    /\ args.path \in Nodes /\ kind[args.path] = "file"
    /\ args.path \in readonly \ removed
    /\ result = <<"Err", "readonly">>
    /\ events = <<>>

(***************************************************************************)
(* get_list_directory (lib.rs 66-112)                                      *)
(*                                                                         *)
(* The command emits "scan-started", runs list_directory_with_events in a  *)
(* blocking task (the steps ListStart, ListChild, ListFinish; every        *)
(* notification of the scan is a "scan-progress" event), awaits the task   *)
(* and returns.  events holds the events emitted on the AppHandle, the     *)
(* three events of the command as <<Root, Root, <<event>>>>.  The          *)
(* JoinHandle of spawn_blocking yields Err when the task ended by a panic  *)
(* instead of a value.                                                     *)
(***************************************************************************)
\* app_handle.emit(event, ..) of the command; "let _ =" drops its Result
emit_event(event) == <<Root, Root, <<event>>>>

CommandEvents == {"scan-started", "scan-completed", "scan-error"}

\* an event emitted by emit_progress
IsScanProgress(e) == IsEmit(e) /\ e[3][1] \notin CommandEvents

\* lines 80-90
ScanCli == [long_format |-> TRUE, human_readable |-> TRUE, parallel |-> TRUE,
            sort |-> TRUE, name |-> None]

\* lines 72-79: "scan-started", then the blocking task is spawned
GetListStart ==
    /\ pc = "idle"
    /\ events' = events \o <<emit_event("scan-started")>>
    /\ pc' = "start"
    /\ UNCHANGED <<fsvars, appvars, variant, args, files, sorted_files, index, entries, result,
                   aggDone>>

\* lines 95-111: the await of the task and the match on its result
GetListJoin ==
    /\ pc \in {"done", "panicked"}
    /\ IF pc = "panicked"
       THEN \* line 96: map_err and "?" return the Err at once
            /\ result' = <<"Err", "join">>
            /\ UNCHANGED events
       ELSE IF result[1] = "Ok"
       THEN /\ events' = events \o <<emit_event("scan-completed")>>
            /\ UNCHANGED result
       ELSE /\ events' = events \o <<emit_event("scan-error")>>
            /\ UNCHANGED result
    /\ pc' = "returned"
    /\ UNCHANGED <<fsvars, appvars, variant, args, files, sorted_files, index, entries, aggDone>>

NextScan ==
    GetListStart \/ ListStart \/ ListChild \/ ListFinish \/ TaskPanics \/ GetListJoin

(***************************************************************************)
(* SpecScan: one call of get_list_directory                                *)
(***************************************************************************)
MaxScanNodes == 3

MaxScanFaults == 1

InitScan ==
    /\ \E k \in 0..MaxScanNodes :
         /\ parent \in ParentArrays(k)
         /\ kind \in KindsFor(k, parent)
         /\ name \in NamesFor(k, parent, ListNames)
         /\ len = [n \in 1..k |-> DefaultLen(n)]
         /\ faults \in SubsetsUpTo(ListFaultsFor(k, parent, kind), MaxScanFaults)
    /\ readonly = {}
    /\ removed = {}
    /\ variant = "v2"
    /\ args = ScanCli
    /\ pc = "idle"
    /\ files = <<>>
    /\ sorted_files = <<>>
    /\ index = 0
    /\ entries = <<>>
    /\ result = <<"none">>
    /\ events = <<>>
    /\ aggDone = {}
    /\ AppIdle

SpecScan == InitScan /\ [][NextScan]_vars

\* the events of the call, without the filesystem calls of the trace
Emits == SelectSeq(events, IsEmit)

EmitCount(event) == Cardinality({i \in 1..Len(Emits) : Emits[i] = emit_event(event)})

\* "scan-started" is the first event of the call
StartedComesFirst ==
    Emits # <<>> => /\ Emits[1] = emit_event("scan-started")
                    /\ EmitCount("scan-started") = 1

\* a returned call has emitted one of "scan-completed" and "scan-error", as
\* its last event, and the one that tells the result of the scan
EndedByOneEvent ==
    IF pc = "returned"
    THEN /\ EmitCount("scan-completed") + EmitCount("scan-error") = 1
         /\ Emits[Len(Emits)] = (IF result[1] = "Ok" THEN emit_event("scan-completed")
                                 ELSE emit_event("scan-error"))
    ELSE EmitCount("scan-completed") + EmitCount("scan-error") = 0

\* C21: a call of get_list_directory emits "scan-started" before every
\* "scan-progress", emits neither "scan-completed" nor "scan-error" while
\* the blocking task runs, and has emitted exactly one of them, after the
\* last "scan-progress" and according to the result, when it returns.
C21_StartedThenOneEnd == StartedComesFirst /\ EndedByOneEvent

(***************************************************************************)
(* FileSizeViewer (src/main.rs): refresh_data, its worker thread and the   *)
(* part of update that reads is_loading and draws the two buttons          *)
(*                                                                         *)
(* workers[w] is the w-th thread spawned by refresh_data: pc is "scan"     *)
(* (in list_directory, line 116), "write" (before the lock of 118/123),    *)
(* "store" (before is_loading.store(false), line 131), "end", or           *)
(* "panicked"; result is what list_directory returned.  The entries of a   *)
(* scan are told apart by the worker that made it: a scan of worker w      *)
(* returns Ok(<<>>) (an empty directory), Ok(<<w>>) or Err.  The fields    *)
(* that only feed the drawing (totals, theme, the duration channel) are    *)
(* left out.                                                               *)
(***************************************************************************)
MaxRefreshes == 3

ViewerPaths == {0, 1}

\* the state of the library, which the viewer reaches only through the
\* result of list_directory
libvars == <<fsvars, variant, args, pc, files, sorted_files, index, entries, result,
             events, aggDone>>

\* what list_directory can return to worker w
ScanResults(w) == {<<"Ok", <<>>>>, <<"Ok", <<w>>>>, <<"Err">>}

\* lines 117-126: the Vec a worker stores for its result
Stored(r) == IF r[1] = "Ok" THEN r[2] ELSE <<>>

\* the worker is between its spawn and its last statement
Running(w) == workers[w].pc \in {"scan", "write", "store"}

\* line 116: list_directory returns
WorkerScan(w) ==
    /\ workers[w].pc = "scan"
    /\ \E r \in ScanResults(w) :
         workers' = [workers EXCEPT ![w] = [pc |-> "write", path |-> @.path,
                                            result |-> r]]
    /\ UNCHANGED <<is_loading, viewer_entries, viewer_path, frame, libvars, setupvars>>

\* list_directory panics (dir_listing.rs 100 unwraps the Result of
\* progress_bar_init): the thread ends there
WorkerPanics(w) ==
    /\ workers[w].pc = "scan"
    /\ workers' = [workers EXCEPT ![w].pc = "panicked"]
    /\ UNCHANGED <<is_loading, viewer_entries, viewer_path, frame, libvars, setupvars>>

\* lines 117-126: under the lock, the shared Vec is replaced
WorkerWrite(w) ==
    /\ workers[w].pc = "write"
    /\ viewer_entries' = Stored(workers[w].result)
    /\ workers' = [workers EXCEPT ![w].pc = "store"]
    /\ UNCHANGED <<is_loading, viewer_path, frame, libvars, setupvars>>

\* line 131: is_loading.store(false)
WorkerStore(w) ==
    /\ workers[w].pc = "store"
    /\ is_loading' = FALSE
    /\ workers' = [workers EXCEPT ![w].pc = "end"]
    /\ UNCHANGED <<viewer_entries, viewer_path, frame, libvars, setupvars>>

\* refresh_data (lines 101-134) with current_path = path: is_loading is set
\* and a worker spawned
refresh_data(path) ==
    /\ is_loading' = TRUE
    /\ workers' = Append(workers, [pc |-> "scan", path |-> path, result |-> <<"none">>])

\* lines 319-322 of update: the text field may change current_path, then
\* is_loading is read
UpdateLoad ==
    /\ frame.pc = "load"
    /\ \E typed \in ViewerPaths : viewer_path' = typed
    /\ frame' = [pc |-> "browse", is_loading |-> is_loading]
    /\ UNCHANGED <<is_loading, viewer_entries, workers, libvars, setupvars>>

\* lines 325-333 of update: the "browse" button, enabled when the
\* is_loading read at line 322 was false; a click opens the folder dialog,
\* and with a folder picked select_directory (lines 136-141) sets
\* current_path and calls refresh_data
UpdateBrowse ==
    /\ frame.pc = "browse"
    /\ \E clicked \in BOOLEAN :
         \E picked \in {None} \cup {Some(q) : q \in ViewerPaths} :
            IF ~clicked \/ frame.is_loading \/ picked = None
            THEN UNCHANGED <<is_loading, workers, viewer_path>>
            ELSE /\ Len(workers) < MaxRefreshes
                 /\ viewer_path' = Unwrap(picked)
                 /\ refresh_data(viewer_path')
    /\ frame' = [frame EXCEPT !.pc = "refresh"]
    /\ UNCHANGED <<viewer_entries, libvars, setupvars>>

\* lines 335-338 of update: the "refresh" button, enabled by the same
\* is_loading read at line 322, whatever the "browse" button has done in
\* the frame; a click calls refresh_data
UpdateRefresh ==
    /\ frame.pc = "refresh"
    /\ \E clicked \in BOOLEAN :
         IF ~clicked \/ frame.is_loading
         THEN UNCHANGED <<is_loading, workers>>
         ELSE /\ Len(workers) < MaxRefreshes
              /\ refresh_data(viewer_path)
    /\ frame' = [frame EXCEPT !.pc = "load"]
    /\ UNCHANGED <<viewer_path, viewer_entries, libvars, setupvars>>

NextViewer ==
    \/ UpdateLoad
    \/ UpdateBrowse
    \/ UpdateRefresh
    \/ \E w \in 1..Len(workers) :
         WorkerScan(w) \/ WorkerPanics(w) \/ WorkerWrite(w) \/ WorkerStore(w)

(***************************************************************************)
(* SpecViewer: the viewer from its construction on.  Default::default()    *)
(* (lines 60-95) sets is_loading and calls refresh_data, so the first      *)
(* worker is running when the first frame is drawn.                        *)
(***************************************************************************)
InitViewer ==
    /\ parent = <<>> /\ kind = <<>> /\ name = <<>> /\ len = <<>>
    /\ faults = {} /\ readonly = {} /\ removed = {}
    /\ variant = "v1"
    /\ ListerIdle
    /\ aggDone = {}
    /\ SetupIdle
    /\ is_loading = TRUE
    /\ viewer_entries = <<>>
    /\ viewer_path \in ViewerPaths
    /\ workers = <<[pc |-> "scan", path |-> viewer_path, result |-> <<"none">>]>>
    /\ frame = [pc |-> "load", is_loading |-> TRUE]

SpecViewer == InitViewer /\ [][NextViewer]_vars

\* at most one worker is between its spawn and its last statement
OneWorkerAtATime ==
    Cardinality({w \in 1..Len(workers) : Running(w)}) <= 1

\* while is_loading is false no worker runs, and the shared Vec is what
\* the scan started last has stored
IdleShowsLastScan ==
    ~is_loading =>
        LET last == workers[Len(workers)]
        IN /\ last.pc = "end"
           /\ viewer_entries = Stored(last.result)

\* a worker is spawned only while is_loading is false
RefreshOnlyWhenIdle == Len(workers') > Len(workers) => ~is_loading

\* is_loading is set to false only by a worker that has replaced the Vec
ClearedAfterWrite ==
    (is_loading /\ ~is_loading') =>
        \E w \in 1..Len(workers) :
            /\ workers[w].pc = "store" /\ workers'[w].pc = "end"
            /\ viewer_entries = Stored(workers[w].result)

\* C22: in the viewer a refresh starts only while is_loading is false, a
\* worker clears is_loading only after it has replaced the shared Vec with
\* its result (the empty Vec for Err), at most one worker runs at any time,
\* and while is_loading is false the shared Vec is the outcome of the scan
\* started last.
C22_OneScanAtATime ==
    /\ [](OneWorkerAtATime /\ IdleShowsLastScan)
    /\ [][RefreshOnlyWhenIdle /\ ClearedAfterWrite]_vars

(***************************************************************************)
(* set_complete and the setup task (lib.rs 161-236)                        *)
(*                                                                         *)
(* set_complete holds the lock on SetupState from its first statement to   *)
(* its return and awaits nothing, so a call is one step.  A panic while    *)
(* the lock is held poisons the Mutex, and state.lock().unwrap() of every  *)
(* later call panics.  close() asks the event loop to close the window;    *)
(* the window is gone, and get_webview_window returns None for it, once    *)
(* the event loop has destroyed it.  A call of the command is issued (by   *)
(* the webview with any string as task, or by the setup task after its     *)
(* sleep) and runs when it gets the lock; calls issued and not yet run may *)
(* run in any order.  events holds what happened:                          *)
(* <<Root, Root, <<"invoke", task, who>>>> for a call issued,              *)
(* <<Root, Root, <<"set_complete", task, who>>>> for a call run, with who  *)
(* "webview" or "setup", and <<Root, Root, <<"window", op>>>> for close()  *)
(* and show().                                                             *)
(***************************************************************************)
MaxWebviewCalls == 3

\* the strings the webview passes as task; "x" stands for every string
\* other than "frontend" and "backend"
Tasks == {"frontend", "backend", "x"}

Invoked(task, who) == <<Root, Root, <<"invoke", task, who>>>>

Called(task, who) == <<Root, Root, <<"set_complete", task, who>>>>

WindowCall(op) == <<Root, Root, <<"window", op>>>>

\* the calls with this task issued by who and not yet run
Pending(task, who) ==
    Len(SelectSeq(events, LAMBDA e : e = Invoked(task, who)))
        - Len(SelectSeq(events, LAMBDA e : e = Called(task, who)))

\* set_complete (lines 197-219) called by who with task
set_complete(task, who) ==
    IF poisoned
    THEN \* line 204: lock().unwrap() panics on the poisoned Mutex
         /\ events' = events \o <<Called(task, who)>>
         /\ UNCHANGED <<frontend_task, backend_task, poisoned, splashscreen, main_window>>
    ELSE IF task \notin {"frontend", "backend"}
    THEN \* line 208: panic!("invalid task completed!"), the lock held
         /\ poisoned' = TRUE
         /\ events' = events \o <<Called(task, who)>>
         /\ UNCHANGED <<frontend_task, backend_task, splashscreen, main_window>>
    ELSE /\ frontend_task' = (frontend_task \/ task = "frontend")
         /\ backend_task' = (backend_task \/ task = "backend")
         /\ IF backend_task' /\ frontend_task'
            THEN IF splashscreen = "closed"
                 THEN \* line 213: unwrap() of None panics, the lock held
                      /\ poisoned' = TRUE
                      /\ events' = events \o <<Called(task, who)>>
                      /\ UNCHANGED <<splashscreen, main_window>>
                 ELSE \* lines 213-216
                      /\ splashscreen' = "closing"
                      /\ main_window' = "visible"
                      /\ events' = events \o <<Called(task, who), WindowCall("close"),
                                               WindowCall("show")>>
                      /\ UNCHANGED poisoned
            ELSE /\ events' = events \o <<Called(task, who)>>
                 /\ UNCHANGED <<poisoned, splashscreen, main_window>>

\* the state of the library and the viewer without the trace
quietvars == <<fsvars, variant, args, pc, files, sorted_files, index, entries, result,
               aggDone, viewervars>>

\* the webview invokes set_complete with some task (the command is
\* registered at line 184)
WebviewInvokes ==
    /\ Len(SelectSeq(events, LAMBDA e : e[3][1] = "invoke" /\ e[3][3] = "webview"))
          < MaxWebviewCalls
    /\ \E task \in Tasks : events' = events \o <<Invoked(task, "webview")>>
    /\ UNCHANGED <<setupvars, quietvars>>

\* setup (lines 222-234): after the sleep, set_complete("backend") is called
SetupWakes ==
    /\ setup_pc = "sleeping"
    /\ events' = events \o <<Invoked("backend", "setup")>>
    /\ setup_pc' = "calling"
    /\ UNCHANGED <<frontend_task, backend_task, poisoned, splashscreen, main_window,
                   quietvars>>

\* a call that was issued gets the lock and runs; the setup task ends with
\* its call (lines 234-235)
SetCompleteRuns ==
    \E task \in Tasks, who \in {"webview", "setup"} :
        /\ Pending(task, who) > 0
        /\ set_complete(task, who)
        /\ setup_pc' = (IF who = "setup" THEN "done" ELSE setup_pc)
        /\ UNCHANGED quietvars

\* the event loop destroys the splash screen after close()
SplashDestroyed ==
    /\ splashscreen = "closing"
    /\ splashscreen' = "closed"
    /\ UNCHANGED <<frontend_task, backend_task, poisoned, main_window, setup_pc, events,
                   quietvars>>

NextSetup == WebviewInvokes \/ SetupWakes \/ SetCompleteRuns \/ SplashDestroyed

(***************************************************************************)
(* SpecSetup: the application from start, the setup task spawned           *)
(***************************************************************************)
InitSetup ==
    /\ parent = <<>> /\ kind = <<>> /\ name = <<>> /\ len = <<>>
    /\ faults = {} /\ readonly = {} /\ removed = {}
    /\ variant = "v2"
    /\ ListerIdle
    /\ aggDone = {}
    /\ AppIdle

SpecSetup == InitSetup /\ [][NextSetup]_vars

\* the number of times the switch of lines 213-216 was made
Switches == Len(SelectSeq(events, LAMBDA e : e = WindowCall("show")))

FlagsOnlyRise ==
    /\ frontend_task => frontend_task'
    /\ backend_task => backend_task'

\* the webview has called set_complete with the task "frontend" only
OnlyFrontendFromWebview ==
    \A i \in 1..Len(events) :
        (events[i][3][1] = "invoke" /\ events[i][3][3] = "webview") =>
            events[i][3][2] = "frontend"

\* C23: whatever the order of the webview's calls of set_complete("frontend")
\* and the setup task's set_complete("backend"), the two flags only go from
\* false to true, the splash screen is closed and the main window shown
\* only with both flags true, and the switch is made exactly once: never a
\* second time, and at the call that sets the second flag.
C23_SwitchOnceBothDone ==
    /\ [][FlagsOnlyRise]_vars
    /\ [](OnlyFrontendFromWebview =>
             /\ (splashscreen # "open" \/ main_window = "visible") =>
                   (frontend_task /\ backend_task)
             /\ Switches = (IF frontend_task /\ backend_task THEN 1 ELSE 0))

====
